---------------------------- MODULE Spec2Model ----------------------------
(***************************************************************************)
(* A model of the line-number patch engine of core/diff_engine.py:         *)
(* the lexical scanner (strip_strings_and_comments), the balance checker   *)
(* (check_brace_balance), the application engine                           *)
(* (LineDiffEngine.apply_to_content) and the orchestrator                  *)
(* (resolve_and_apply_all / apply_and_save).                               *)
(*                                                                         *)
(* A text is a sequence of one-character strings; a line array is a        *)
(* sequence of texts.  Indices named p, i, s, e are Python's 0-based       *)
(* indices; Ch(text, p) reads text[p].                                     *)
(***************************************************************************)
EXTENDS Integers, Sequences, FiniteSets, TLC

NL == "\n"
CR == "\r"
BS == "\\"
DQ == "\""
SQ == "'"
\* the back-quote, which a TLA+ string cannot hold, is written as the token bq
BQ == "bq"

Min(a, b) == IF a < b THEN a ELSE b
Max(a, b) == IF a > b THEN a ELSE b

Ch(text, p) == text[p + 1]

(***************************************************************************)
(* Python list and string primitives.                                      *)
(***************************************************************************)

\* the indices (1-based) of the line breaks of text, and the k-th smallest of them
Breaks(text) == {k \in 1..Len(text) : text[k] = NL}
KthBreak(text, k) ==
    CHOOSE b \in Breaks(text) : Cardinality({c \in Breaks(text) : c <= b}) = k

\* text.split('\n'): always at least one (possibly empty) line
Split(text) ==
    LET n == Cardinality(Breaks(text))
        from(k) == IF k = 1 THEN 1 ELSE KthBreak(text, k - 1) + 1
        to(k) == IF k = n + 1 THEN Len(text) ELSE KthBreak(text, k) - 1
    IN  [k \in 1..(n + 1) |-> SubSeq(text, from(k), to(k))]

\* '\n'.join(lines)
RECURSIVE Join(_)
Join(lines) ==
    IF Len(lines) = 0 THEN <<>>
    ELSE IF Len(lines) = 1 THEN lines[1]
    ELSE lines[1] \o <<NL>> \o Join(Tail(lines))

\* lst[s:e] for 0 <= s, 0 <= e (an empty list when e <= s)
Slice(lst, s, e) == SubSeq(lst, s + 1, Min(e, Len(lst)))

\* lst[s:e] = new for 0 <= s <= len, 0 <= e <= len; when e < s Python inserts at s
SliceAssign(lst, s, e, new) ==
    SubSeq(lst, 1, s) \o new \o SubSeq(lst, Max(s, e) + 1, Len(lst))

IsSpace(c) == c \in {" ", NL, CR, "\t"}

\* len(text.strip()): the span from the first to the last non-blank character
StripLen(text) ==
    LET solid == {k \in 1..Len(text) : ~IsSpace(text[k])}
        first == CHOOSE k \in solid : \A j \in solid : k <= j
        last == CHOOSE k \in solid : \A j \in solid : j <= k
    IN  IF solid = {} THEN 0 ELSE last - first + 1

(***************************************************************************)
(* A while loop of the source is modelled by its body, one pass from a     *)
(* record of the loop's locals to the record after the pass, and by a      *)
(* runner that repeats the body until the loop's exit condition holds.     *)
(* Every pass moves the scan index i forward, so Len(text) + 1 passes are  *)
(* enough; the runner reaches them by doubling, Passes(n) times.           *)
(***************************************************************************)

RECURSIVE Passes(_)
Passes(n) == IF n <= 1 THEN 0 ELSE 1 + Passes((n + 1) \div 2)

(***************************************************************************)
(* strip_strings_and_comments.                                             *)
(***************************************************************************)

\* text[q] == x, guarded by q < length
At(text, q, x) == q < Len(text) /\ Ch(text, q) = x

\* the nested ordinary string inside an interpolation hole; st = [i, done]
NestedStringBody(text, st) ==
    LET nc == Ch(text, st.i) IN
    CASE nc = BS -> [st EXCEPT !.i = @ + 2]
      [] nc = DQ -> [st EXCEPT !.i = @ + 1, !.done = TRUE]
      [] OTHER -> [st EXCEPT !.i = @ + 1]

RECURSIVE NestedStringRun(_, _, _)
NestedStringRun(text, st, k) ==
    IF st.done \/ st.i >= Len(text) THEN st
    ELSE IF k = 0 THEN NestedStringBody(text, st)
    ELSE NestedStringRun(text, NestedStringRun(text, st, k - 1), k - 1)

\* returns the new i
NestedString(text, p) ==
    NestedStringRun(text, [i |-> p, done |-> FALSE], Passes(Len(text) + 1)).i

\* a brace that is never taken for the first of a doubled brace
UndoubledBrace(text, p) == FALSE

\* text[p] is a brace and the next character is the same brace
DoubledBrace(text, p) == At(text, p + 1, Ch(text, p))

\* the loop over a verbatim and/or interpolated literal, entered after its
\* quote; st = [i, res, interp_depth, is_verbatim, is_interpolated, done]
PrefixedLiteralBody(text, st) ==
    LET sc == Ch(text, st.i)
        p == st.i
    IN
    CASE st.is_verbatim /\ sc = DQ /\ At(text, p + 1, DQ) -> [st EXCEPT !.i = p + 2]
      [] st.is_verbatim /\ sc = DQ /\ ~At(text, p + 1, DQ) ->
            [st EXCEPT !.i = p + 1, !.done = TRUE]
      [] ~st.is_verbatim /\ sc = BS -> [st EXCEPT !.i = p + 2]
      [] ~st.is_verbatim /\ sc = DQ /\ st.interp_depth = 0 ->
            [st EXCEPT !.i = p + 1, !.done = TRUE]
      [] OTHER ->
        CASE st.is_interpolated /\ sc = "{" /\ DoubledBrace(text, p) ->
                [st EXCEPT !.i = p + 2]
          [] st.is_interpolated /\ sc = "{" /\ ~DoubledBrace(text, p) ->
                [st EXCEPT !.i = p + 1, !.res = Append(@, sc),
                           !.interp_depth = @ + 1]
          [] st.is_interpolated /\ sc = "}" /\ DoubledBrace(text, p) ->
                [st EXCEPT !.i = p + 2]
          [] st.is_interpolated /\ sc = "}" /\ ~DoubledBrace(text, p) ->
                [st EXCEPT !.i = p + 1, !.res = Append(@, sc),
                           !.interp_depth = @ - 1]
          [] st.is_interpolated /\ sc \notin {"{", "}"} /\ st.interp_depth > 0
             /\ sc = DQ ->
                [st EXCEPT !.i = NestedString(text, p + 1)]
          [] st.is_interpolated /\ sc \notin {"{", "}"} /\ st.interp_depth > 0
             /\ sc # DQ ->
                [st EXCEPT !.i = p + 1, !.res = Append(@, sc)]
          [] OTHER ->
                [st EXCEPT !.i = p + 1,
                           !.res = IF sc = NL THEN Append(@, sc) ELSE @]

RECURSIVE PrefixedLiteralRun(_, _, _)
PrefixedLiteralRun(text, st, k) ==
    IF st.done \/ st.i >= Len(text) THEN st
    ELSE IF k = 0 THEN PrefixedLiteralBody(text, st)
    ELSE PrefixedLiteralRun(text, PrefixedLiteralRun(text, st, k - 1), k - 1)

PrefixedLiteral(text, p, res, is_verbatim, is_interpolated) ==
    PrefixedLiteralRun(text,
        [i |-> p, res |-> res, interp_depth |-> 0, is_verbatim |-> is_verbatim,
         is_interpolated |-> is_interpolated, done |-> FALSE],
        Passes(Len(text) + 1))

\* the loop over an ordinary double-quoted string, entered after its quote;
\* st = [i, res, done]
RegularStringBody(text, st) ==
    LET sc == Ch(text, st.i) IN
    CASE sc = BS -> [st EXCEPT !.i = @ + 2]
      [] sc = DQ -> [st EXCEPT !.i = @ + 1, !.done = TRUE]
      [] sc = NL -> [st EXCEPT !.i = @ + 1, !.res = Append(@, sc)]
      [] OTHER -> [st EXCEPT !.i = @ + 1]

RECURSIVE RegularStringRun(_, _, _)
RegularStringRun(text, st, k) ==
    IF st.done \/ st.i >= Len(text) THEN st
    ELSE IF k = 0 THEN RegularStringBody(text, st)
    ELSE RegularStringRun(text, RegularStringRun(text, st, k - 1), k - 1)

RegularString(text, p, res) ==
    RegularStringRun(text, [i |-> p, res |-> res, done |-> FALSE],
                     Passes(Len(text) + 1))

\* a lookahead window one character longer
CharLimitWide(p, length) == Min(p + 7, length)

\* the end of the lookahead window of a char literal opened at text[p]
CharLimit(p, length) == Min(p + 6, length)

\* the lookahead for the closing quote of a char literal: its index, or -1
\* (at most five characters are looked at)
RECURSIVE CharLiteralClose(_, _, _)
CharLiteralClose(text, scan, limit) ==
    IF scan >= limit THEN -1
    ELSE IF Ch(text, scan) = BS THEN CharLiteralClose(text, scan + 2, limit)
    ELSE IF Ch(text, scan) = SQ THEN scan
    ELSE IF Ch(text, scan) = NL THEN -1
    ELSE CharLiteralClose(text, scan + 1, limit)

\* the loop over a ${ } hole of a template literal; st = [i, res, depth]
TemplateHoleBody(text, st) ==
    LET tc == Ch(text, st.i) IN
    CASE tc = "{" -> [st EXCEPT !.i = @ + 1, !.res = Append(@, tc), !.depth = @ + 1]
      [] tc = "}" -> [st EXCEPT !.i = @ + 1, !.res = Append(@, tc), !.depth = @ - 1]
      [] tc = NL -> [st EXCEPT !.i = @ + 1, !.res = Append(@, tc)]
      [] OTHER -> [st EXCEPT !.i = @ + 1]

RECURSIVE TemplateHoleRun(_, _, _)
TemplateHoleRun(text, st, k) ==
    IF ~(st.i < Len(text) /\ st.depth > 0) THEN st
    ELSE IF k = 0 THEN TemplateHoleBody(text, st)
    ELSE TemplateHoleRun(text, TemplateHoleRun(text, st, k - 1), k - 1)

TemplateHole(text, p, res) ==
    TemplateHoleRun(text, [i |-> p, res |-> res, depth |-> 1],
                    Passes(Len(text) + 1))

\* the loop over a back-quoted template literal, entered after its
\* back-quote; st = [i, res, done]
TemplateLiteralBody(text, st) ==
    LET sc == Ch(text, st.i)
        h == TemplateHole(text, st.i + 2, Append(st.res, "{"))
    IN
    CASE sc = BS -> [st EXCEPT !.i = @ + 2]
      [] sc = BQ -> [st EXCEPT !.i = @ + 1, !.done = TRUE]
      [] sc = "$" /\ At(text, st.i + 1, "{") -> [st EXCEPT !.i = h.i, !.res = h.res]
      [] OTHER -> [st EXCEPT !.i = @ + 1,
                             !.res = IF sc = NL THEN Append(@, sc) ELSE @]

RECURSIVE TemplateLiteralRun(_, _, _)
TemplateLiteralRun(text, st, k) ==
    IF st.done \/ st.i >= Len(text) THEN st
    ELSE IF k = 0 THEN TemplateLiteralBody(text, st)
    ELSE TemplateLiteralRun(text, TemplateLiteralRun(text, st, k - 1), k - 1)

TemplateLiteral(text, p, res) ==
    TemplateLiteralRun(text, [i |-> p, res |-> res, done |-> FALSE],
                       Passes(Len(text) + 1))

\* the prefix of a verbatim / interpolated literal at text[p]: the index after
\* its quote (-1 when there is no such prefix) and the two flags
LiteralPrefix(text, p) ==
    LET c == Ch(text, p) IN
    CASE c = "@" /\ At(text, p + 1, DQ) ->
            [quote_start |-> p + 2, is_verbatim |-> TRUE, is_interpolated |-> FALSE]
      [] c = "$" /\ At(text, p + 1, DQ) ->
            [quote_start |-> p + 2, is_verbatim |-> FALSE, is_interpolated |-> TRUE]
      [] c = "$" /\ At(text, p + 1, "@") /\ At(text, p + 2, DQ) ->
            [quote_start |-> p + 3, is_verbatim |-> TRUE, is_interpolated |-> TRUE]
      [] c = "@" /\ At(text, p + 1, "$") /\ At(text, p + 2, DQ) ->
            [quote_start |-> p + 3, is_verbatim |-> TRUE, is_interpolated |-> TRUE]
      [] OTHER ->
            [quote_start |-> -1, is_verbatim |-> FALSE, is_interpolated |-> FALSE]

\* the main loop; st = [i, res, in_block_comment, in_line_comment]
StripBody(text, st) ==
    LET p == st.i
        c == Ch(text, p)
        pre == LiteralPrefix(text, p)
        lit == PrefixedLiteral(text, pre.quote_start, st.res,
                               pre.is_verbatim, pre.is_interpolated)
        str == RegularString(text, p + 1, st.res)
        close == CharLiteralClose(text, p + 1, CharLimit(p, Len(text)))
        tpl == TemplateLiteral(text, p + 1, st.res)
    IN
    CASE st.in_block_comment /\ c = "*" /\ At(text, p + 1, "/") ->
            [st EXCEPT !.i = p + 2, !.in_block_comment = FALSE]
      [] st.in_block_comment /\ ~(c = "*" /\ At(text, p + 1, "/")) ->
            [st EXCEPT !.i = p + 1, !.res = IF c = NL THEN Append(@, c) ELSE @]
      [] ~st.in_block_comment /\ st.in_line_comment /\ c = NL ->
            [st EXCEPT !.i = p + 1, !.res = Append(@, c), !.in_line_comment = FALSE]
      [] ~st.in_block_comment /\ st.in_line_comment /\ c # NL ->
            [st EXCEPT !.i = p + 1]
      [] OTHER ->
        CASE c = "/" /\ At(text, p + 1, "*") ->
                [st EXCEPT !.i = p + 2, !.in_block_comment = TRUE]
          [] c = "/" /\ At(text, p + 1, "/") ->
                [st EXCEPT !.i = p + 2, !.in_line_comment = TRUE]
          [] c \in {"@", "$"} /\ p + 1 < Len(text) /\ pre.quote_start # -1 ->
                [st EXCEPT !.i = lit.i, !.res = lit.res]
          [] OTHER ->
            CASE c = DQ -> [st EXCEPT !.i = str.i, !.res = str.res]
              [] c = SQ /\ close # -1 -> [st EXCEPT !.i = close + 1]
              [] c = SQ /\ close = -1 -> [st EXCEPT !.i = p + 1, !.res = Append(@, c)]
              [] c = BQ -> [st EXCEPT !.i = tpl.i, !.res = tpl.res]
              [] OTHER -> [st EXCEPT !.i = p + 1, !.res = Append(@, c)]

RECURSIVE StripRun(_, _, _)
StripRun(text, st, k) ==
    IF st.i >= Len(text) THEN st
    ELSE IF k = 0 THEN StripBody(text, st)
    ELSE StripRun(text, StripRun(text, st, k - 1), k - 1)

strip_strings_and_comments(text) ==
    StripRun(text, [i |-> 0, res |-> <<>>, in_block_comment |-> FALSE,
                    in_line_comment |-> FALSE],
             Passes(Len(text) + 1)).res

(***************************************************************************)
(* check_brace_balance.  The returned message is kept as its kind and the  *)
(* bracket and line numbers it names.                                      *)
(***************************************************************************)

Opens == {"{", "(", "["}
Closes == {"}", ")", "]"}
\* every closing bracket taken for a closing brace
CloseToOpenBrace(ch) == "{"

CloseToOpen(ch) == IF ch = "}" THEN "{" ELSE IF ch = ")" THEN "(" ELSE "["

CountOf(text, x) == Cardinality({k \in 1..Len(text) : text[k] = x})

\* the for loop over cleaned; st = [k, stack, line_num, ret], ret = <<>> until
\* the loop returns early, then the one-element sequence of the returned value
BalanceBody(cleaned, st) ==
    LET ch == cleaned[st.k]
        top == st.stack[Len(st.stack)]
    IN
    CASE ch = NL -> [st EXCEPT !.k = @ + 1, !.line_num = @ + 1]
      [] ch \in Opens ->
            [st EXCEPT !.k = @ + 1,
                       !.stack = Append(@, [ch |-> ch, line |-> st.line_num])]
      [] ch \in Closes /\ Len(st.stack) = 0 ->
            [st EXCEPT !.ret = << [ok |-> FALSE, kind |-> "unexpected", ch |-> ch,
                                   line |-> st.line_num, stack |-> st.stack] >>]
      [] ch \in Closes /\ Len(st.stack) > 0 /\ top.ch # CloseToOpen(ch) ->
            [st EXCEPT !.ret = << [ok |-> FALSE, kind |-> "mismatched", ch |-> ch,
                                   line |-> st.line_num, stack |-> st.stack] >>]
      [] ch \in Closes /\ Len(st.stack) > 0 /\ top.ch = CloseToOpen(ch) ->
            [st EXCEPT !.k = @ + 1, !.stack = SubSeq(@, 1, Len(@) - 1)]
      [] OTHER -> [st EXCEPT !.k = @ + 1]

RECURSIVE BalanceRun(_, _, _)
BalanceRun(cleaned, st, k) ==
    IF st.ret # <<>> \/ st.k > Len(cleaned) THEN st
    ELSE IF k = 0 THEN BalanceBody(cleaned, st)
    ELSE BalanceRun(cleaned, BalanceRun(cleaned, st, k - 1), k - 1)

check_brace_balance(text) ==
    LET cleaned == strip_strings_and_comments(text)
        st == BalanceRun(cleaned, [k |-> 1, stack |-> <<>>, line_num |-> 1,
                                   ret |-> <<>>],
                         Passes(Len(cleaned) + 1))
    IN
    IF st.ret # <<>> THEN st.ret[1]
    ELSE IF Len(st.stack) > 0 THEN
        [ok |-> FALSE, kind |-> "unclosed", ch |-> "", line |-> 0,
         stack |-> st.stack]
    ELSE [ok |-> TRUE, kind |-> "balanced", ch |-> "", line |-> 0,
          stack |-> <<>>, opens |-> CountOf(cleaned, "{"),
          closes |-> CountOf(cleaned, "}")]

(***************************************************************************)
(* is_brace_language.  A path is a text; None is the empty path.           *)
(***************************************************************************)

UpperCase == <<"A", "B", "C", "D", "E", "F", "G", "H", "I", "J", "K", "L", "M",
               "N", "O", "P", "Q", "R", "S", "T", "U", "V", "W", "X", "Y", "Z">>
LowerCase == <<"a", "b", "c", "d", "e", "f", "g", "h", "i", "j", "k", "l", "m",
               "n", "o", "p", "q", "r", "s", "t", "u", "v", "w", "x", "y", "z">>

\* str.lower() on one character
LowerChar(c) ==
    IF \E k \in 1..26 : UpperCase[k] = c
    THEN LowerCase[CHOOSE k \in 1..26 : UpperCase[k] = c]
    ELSE c

\* a text left as it is written
NotLowered(text) == text

Lower(text) == [k \in 1..Len(text) |-> LowerChar(text[k])]

\* the largest index of text holding a character of cs, or 0
LastIndexIn(text, cs) ==
    LET hits == {k \in 1..Len(text) : text[k] \in cs}
    IN  IF hits = {} THEN 0 ELSE CHOOSE k \in hits : \A j \in hits : j <= k

\* os.path.splitext(path)[1]: from the last dot of the last component, unless
\* only dots precede it in that component
SplitExt(path) ==
    LET sep == LastIndexIn(path, {"/", BS})
        dot == LastIndexIn(path, {"."})
    IN  IF dot > sep /\ (\E k \in (sep + 1)..(dot - 1) : path[k] # ".")
        THEN SubSeq(path, dot, Len(path))
        ELSE <<>>

BRACE_LANGUAGES ==
    { <<".", "c", "s">>, <<".", "v", "b">>, <<".", "j", "a", "v", "a">>,
      <<".", "j", "s">>, <<".", "t", "s">>, <<".", "j", "s", "x">>,
      <<".", "t", "s", "x">>, <<".", "g", "o">>, <<".", "r", "s">>,
      <<".", "s", "w", "i", "f", "t">>, <<".", "k", "t">>,
      <<".", "c", "p", "p">>, <<".", "c">>, <<".", "h">>,
      <<".", "h", "p", "p">> }

is_brace_language(filepath) == Lower(SplitExt(filepath)) \in BRACE_LANGUAGES

None == <<>>

(***************************************************************************)
(* LineDiffEngine.apply_to_content.  The engine state es is the record of  *)
(* the locals file_lines, msgs, ok and errors; each command of the loop is *)
(* one operator from es to es.                                             *)
(***************************************************************************)

FULL_REPLACE_MIN_LINES == 10
SIZE_GUARD_MIN_CHARS == 200

\* a variant that takes the tenth by integer division
LessThanTenthFloor(k, n) == k < n \div 10

\* k < n * 0.1 in Python's floats; for 0 <= n < 5000 the product n * 0.1 is
\* never rounded across an integer, so the test is 10 * k < n
LessThanTenth(k, n) == 10 * k < n

\* c.get('start', c.get('after', 0))
AnchorKey(c) ==
    IF "start" \in DOMAIN c THEN c.start
    ELSE IF "after" \in DOMAIN c THEN c.after
    ELSE 0

\* sorted(commands, key=..., reverse=True): stable, so commands of equal key
\* keep their input order
RECURSIVE InsertByKey(_, _)
InsertByKey(sorted, c) ==
    IF Len(sorted) = 0 THEN <<c>>
    ELSE IF AnchorKey(Head(sorted)) >= AnchorKey(c)
         THEN <<Head(sorted)>> \o InsertByKey(Tail(sorted), c)
         ELSE <<c>> \o sorted

RECURSIVE SortCommands(_, _)
SortCommands(commands, k) ==
    IF k = 0 THEN <<>>
    ELSE InsertByKey(SortCommands(commands, k - 1), commands[k])

\* a variant that applies the commands in their input order
sorted_cmds_unsorted(commands) == commands

RECURSIVE ReverseSeq(_)
ReverseSeq(q) == IF Len(q) = 0 THEN <<>> ELSE Append(ReverseSeq(Tail(q)), Head(q))

\* a variant that sorts by ascending anchor (reverse=True left out)
sorted_cmds_ascending(commands) ==
    ReverseSeq(SortCommands(ReverseSeq(commands), Len(commands)))

sorted_cmds(commands) == SortCommands(commands, Len(commands))

do_brace(filepath) == filepath # None /\ is_brace_language(filepath)

\* the range test of REPLACE: if s > len(file_lines)
ReplaceOutOfRange(s, n) == s > n

\* the destructive-truncation guard of a REPLACE over the whole original
FullReplaceGuard(cmd, new_lines, orig_count) ==
    LET is_full == cmd.start <= 1 /\ cmd.end >= orig_count
    IN  is_full /\ orig_count > FULL_REPLACE_MIN_LINES
        /\ LessThanTenth(Len(new_lines), orig_count)

\* a variant that restores over the old range's length
RollbackOldRange(spliced, s, new_lines, saved_old) ==
    SliceAssign(spliced, s, s + Len(saved_old), saved_old)

\* the undo of a rolled-back REPLACE: file_lines[s:s + len(new_lines)] = saved_old
Rollback(spliced, s, new_lines, saved_old) ==
    SliceAssign(spliced, s, s + Len(new_lines), saved_old)

\* a variant that judges the replacement lines alone
BalanceOfNewLines(spliced, new_lines) == check_brace_balance(Join(new_lines))

\* joined = '\n'.join(file_lines); check_brace_balance(joined)
BalanceAfterSplice(spliced, new_lines) == check_brace_balance(Join(spliced))

ReplaceCmd(es, cmd, orig_count, brace) ==
    LET n == Len(es.file_lines)
        s == IF cmd.start - 1 < 0 THEN 0 ELSE cmd.start - 1
        e == IF cmd.end > n THEN n ELSE cmd.end
        new_lines == Split(cmd.content)
        saved_old == Slice(es.file_lines, s, e)
        spliced == SliceAssign(es.file_lines, s, e, new_lines)
        bal == BalanceAfterSplice(spliced, new_lines)
    IN
    IF ReplaceOutOfRange(s, n) THEN
        [es EXCEPT !.msgs = Append(@, [tag |-> "[X]", op |-> "REPLACE",
                                        start |-> cmd.start, end |-> cmd.end,
                                        length |-> n]),
                   !.errors = @ + 1]
    ELSE IF FullReplaceGuard(cmd, new_lines, orig_count) THEN
        [es EXCEPT !.msgs = Append(@, [tag |-> "[BLOCK]", op |-> "REPLACE",
                                        why |-> "full replace",
                                        start |-> cmd.start, end |-> cmd.end,
                                        from |-> orig_count, to |-> Len(new_lines)]),
                   !.errors = @ + 1]
    ELSE IF brace /\ ~bal.ok THEN
        [es EXCEPT !.file_lines = Rollback(spliced, s, new_lines, saved_old),
                   !.msgs = @ \o << [tag |-> "[BLOCK]", op |-> "REPLACE",
                                     why |-> "brace imbalance",
                                     start |-> cmd.start, end |-> cmd.end,
                                     brace_msg |-> bal],
                                    [tag |-> "[ROLLBACK]", op |-> "REPLACE",
                                     start |-> cmd.start, end |-> cmd.end] >>,
                   !.errors = @ + 1]
    ELSE
        [es EXCEPT !.file_lines = spliced,
                   !.ok = @ + 1,
                   !.msgs = Append(@, [tag |-> "[OK]", op |-> "REPLACE",
                                        start |-> cmd.start, end |-> cmd.end,
                                        old_count |-> e - s,
                                        new_count |-> Len(new_lines)])]

\* a variant with the range test of REPLACE
DeleteOutOfRangeLoose(s, n) == s > n

\* the range test of DELETE: if s >= len(file_lines)
DeleteOutOfRange(s, n) == s >= n

\* a variant whose range test skips the command without counting it
DeleteCmdSilent(es, cmd) ==
    LET n == Len(es.file_lines)
        s == IF cmd.start - 1 < 0 THEN 0 ELSE cmd.start - 1
        e == Min(s + cmd.count, n)
    IN
    IF DeleteOutOfRange(s, n) THEN
        [es EXCEPT !.msgs = Append(@, [tag |-> "[X]", op |-> "DELETE",
                                        start |-> cmd.start, length |-> n])]
    ELSE
        [es EXCEPT !.file_lines = SliceAssign(@, s, e, <<>>),
                   !.ok = @ + 1,
                   !.msgs = Append(@, [tag |-> "[OK]", op |-> "DELETE",
                                        start |-> cmd.start, count |-> cmd.count,
                                        actual |-> e - s])]

DeleteCmd(es, cmd) ==
    LET n == Len(es.file_lines)
        s == IF cmd.start - 1 < 0 THEN 0 ELSE cmd.start - 1
        e == Min(s + cmd.count, n)
    IN
    IF DeleteOutOfRange(s, n) THEN
        [es EXCEPT !.msgs = Append(@, [tag |-> "[X]", op |-> "DELETE",
                                        start |-> cmd.start, length |-> n]),
                   !.errors = @ + 1]
    ELSE
        [es EXCEPT !.file_lines = SliceAssign(@, s, e, <<>>),
                   !.ok = @ + 1,
                   !.msgs = Append(@, [tag |-> "[OK]", op |-> "DELETE",
                                        start |-> cmd.start, count |-> cmd.count,
                                        actual |-> e - s])]

\* a variant that splices before the named line
InsertPosBefore(after, n) ==
    IF after - 1 < 0 THEN 0 ELSE IF after - 1 > n THEN n ELSE after - 1

\* pos = cmd['after'], clamped into [0, len(file_lines)]
InsertPos(after, n) == IF after < 0 THEN 0 ELSE IF after > n THEN n ELSE after

InsertCmd(es, cmd) ==
    LET n == Len(es.file_lines)
        pos == InsertPos(cmd.after, n)
        new_lines == Split(cmd.content)
    IN
    [es EXCEPT !.file_lines = SliceAssign(@, pos, pos, new_lines),
               !.ok = @ + 1,
               !.msgs = Append(@, [tag |-> "[OK]", op |-> "INSERT",
                                    after |-> cmd.after,
                                    new_count |-> Len(new_lines)])]

\* one pass of the loop body for command cmd
ApplyCommand(es, cmd, orig_count, brace) ==
    IF cmd.type = "replace" THEN ReplaceCmd(es, cmd, orig_count, brace)
    ELSE IF cmd.type = "delete" THEN DeleteCmd(es, cmd)
    ELSE IF cmd.type = "insert" THEN InsertCmd(es, cmd)
    ELSE es

\* a variant that measures lines where the code measures characters
SizeGuardByLines(original, result) ==
    LET orig_len == Len(Split(original))
        result_len == Len(Split(result))
    IN  orig_len > SIZE_GUARD_MIN_CHARS /\ LessThanTenth(result_len, orig_len)

\* the whole-result size guard
SizeGuard(original, result) ==
    LET orig_len == StripLen(original)
        result_len == StripLen(result)
    IN  orig_len > SIZE_GUARD_MIN_CHARS /\ LessThanTenth(result_len, orig_len)

\* a variant without the final check
FinalCheckSkipped(result, brace) == FALSE

\* the final balance check on the complete result fails
FinalCheckFails(result, brace) == brace /\ ~check_brace_balance(result).ok

\* the code after the loop: the summary line, the size guard, the final check
Finish(es, original, total, brace) ==
    LET summary == [tag |-> "Result", ok |-> es.ok, errors |-> es.errors,
                    total |-> total]
        msgs == <<summary>> \o es.msgs
        result == Join(es.file_lines)
        bal == check_brace_balance(result)
    IN
    IF SizeGuard(original, result) THEN
        [text |-> original,
         msgs |-> Append(msgs, [tag |-> "[BLOCK]", why |-> "result size",
                                pct |-> (StripLen(result) * 100) \div StripLen(original)])]
    ELSE IF FinalCheckFails(result, brace) THEN
        [text |-> original,
         msgs |-> msgs \o << [tag |-> "[BLOCK]", why |-> "FINAL brace check",
                              brace_msg |-> bal],
                             [tag |-> "[BLOCK]", why |-> "entire patch rejected"] >>]
    ELSE IF brace THEN
        [text |-> result,
         msgs |-> Append(msgs, [tag |-> "[BRACE OK]", brace_msg |-> bal])]
    ELSE [text |-> result, msgs |-> msgs]

NoChanges == [tag |-> "[!] no changes"]

\* a variant without the early return: the empty batch runs the code after
\* the loop
NoChangesFallsThrough(original) ==
    Finish([file_lines |-> Split(original), msgs |-> <<>>, ok |-> 0, errors |-> 0],
           original, 0, FALSE)

\* the early return for an empty command list
NoChangesResult(original) == [text |-> original, msgs |-> <<NoChanges>>]

RECURSIVE ApplyLoop(_, _, _, _, _)
ApplyLoop(es, cmds, k, orig_count, brace) ==
    IF k > Len(cmds) THEN es
    ELSE CHOOSE r \in {ApplyLoop(e, cmds, k + 1, orig_count, brace) :
                          e \in {ApplyCommand(es, cmds[k], orig_count, brace)}} : TRUE

\* the whole call, as a function of its inputs
apply_to_content(original, commands, filepath) ==
    IF Len(commands) = 0 THEN NoChangesResult(original)
    ELSE LET lines == Split(original)
             es0 == [file_lines |-> lines, msgs |-> <<>>, ok |-> 0, errors |-> 0]
             brace == do_brace(filepath)
         IN  CHOOSE r \in
                 {Finish(e, original, Len(commands), brace) :
                     e \in {ApplyLoop(es0, sorted_cmds(commands), 1, Len(lines),
                                      brace)}} : TRUE

(***************************************************************************)
(* LineDiffEngine._resolve.  The path map pm is the sequence of its        *)
(* (relative path, absolute path) items in the dict's order.               *)
(***************************************************************************)

Last(q) == q[Len(q)]

\* text.replace('\\', '/')
Slashed(text) == [k \in 1..Len(text) |-> IF text[k] = BS THEN "/" ELSE text[k]]

\* text.strip('/')
StripSlashes(text) ==
    LET solid == {k \in 1..Len(text) : text[k] # "/"}
        first == CHOOSE k \in solid : \A j \in solid : k <= j
        last == CHOOSE k \in solid : \A j \in solid : j <= k
    IN  IF solid = {} THEN <<>> ELSE SubSeq(text, first, last)

\* text.split('/')
SplitSlash(text) ==
    LET cuts == {k \in 1..Len(text) : text[k] = "/"}
        n == Cardinality(cuts)
        cut(k) == CHOOSE b \in cuts : Cardinality({c \in cuts : c <= b}) = k
        from(k) == IF k = 1 THEN 1 ELSE cut(k - 1) + 1
        to(k) == IF k = n + 1 THEN Len(text) ELSE cut(k) - 1
    IN  [k \in 1..(n + 1) |-> SubSeq(text, from(k), to(k))]

\* text.endswith(suffix)
EndsWith(text, suffix) ==
    /\ Len(suffix) <= Len(text)
    /\ SubSeq(text, Len(text) - Len(suffix) + 1, Len(text)) = suffix

\* sum(1 for x, y in zip(reversed(rp), reversed(np)) if x == y)
Overlap(rp, np) ==
    Cardinality({k \in 1..Min(Len(rp), Len(np)) :
                    rp[Len(rp) + 1 - k] = np[Len(np) + 1 - k]})

\* the least member of a non-empty set of indices
First(hits) == CHOOSE k \in hits : \A j \in hits : k <= j

\* the loop "if ov > bo: bo, best = ov, a" over the candidates: the first
\* candidate of the largest overlap, if that overlap is positive
RECURSIVE BestCandidate(_, _, _, _, _)
BestCandidate(cands, np, k, bo, best) ==
    IF k > Len(cands) THEN best
    ELSE LET ov == Overlap(SplitSlash(Lower(Slashed(cands[k][1]))), np)
         IN  IF ov > bo THEN BestCandidate(cands, np, k + 1, ov, cands[k][2])
             ELSE BestCandidate(cands, np, k + 1, bo, best)

\* a first rule that never matches
NoExactMatches(fp, pm) == {}

\* the items the loop of rule 1 accepts:
\* r.replace('\\', '/').strip('/') == norm
ExactMatches(fp, pm) ==
    {k \in 1..Len(pm) : StripSlashes(Slashed(pm[k][1])) = StripSlashes(Slashed(fp))}

_resolve(fp, pm) ==
    IF fp = <<>> \/ Len(pm) = 0 THEN None
    ELSE
    LET norm == StripSlashes(Slashed(fp))
        nl == Lower(norm)
        exact == ExactMatches(fp, pm)
        nocase == {k \in 1..Len(pm) : Lower(StripSlashes(Slashed(pm[k][1]))) = nl}
        fn == Last(SplitSlash(nl))
        SameName(item) == Lower(Last(SplitSlash(Slashed(item[1])))) = fn
        cands == SelectSeq(pm, SameName)
        best == BestCandidate(cands, SplitSlash(nl), 1, 0, None)
        suffix == {k \in 1..Len(pm) :
                     LET rl == Lower(Slashed(pm[k][1]))
                     IN  EndsWith(rl, nl) \/ EndsWith(nl, rl)}
    IN  IF exact # {} THEN pm[First(exact)][2]
        ELSE IF nocase # {} THEN pm[First(nocase)][2]
        ELSE IF Len(cands) = 1 THEN cands[1][2]
        ELSE IF Len(cands) > 1 /\ best # None THEN best
        ELSE IF suffix # {} THEN pm[First(suffix)][2]
        ELSE None

(***************************************************************************)
(* EncodingHandler.read_file and write_file on texts of ASCII characters   *)
(* (the decoding and the encoding of such a text keep every character).    *)
(* A disk is a function from the absolute paths of the files that exist to *)
(* their contents.                                                         *)
(***************************************************************************)

LF_STYLE == "LF"
CRLF_STYLE == "CRLF"

\* raw.count(b'\r\n') and raw.count(b'\n') - crlf
line_ending(raw) ==
    LET crlf == Cardinality({k \in 2..Len(raw) : raw[k] = NL /\ raw[k - 1] = CR})
        lf == Cardinality({k \in 1..Len(raw) : raw[k] = NL}) - crlf
    IN  IF crlf > lf THEN CRLF_STYLE ELSE LF_STYLE

\* content.replace('\r\n', '\n').replace('\r', '\n')
RECURSIVE DropCrBeforeLf(_)
DropCrBeforeLf(text) ==
    IF Len(text) = 0 THEN <<>>
    ELSE IF Len(text) >= 2 /\ text[1] = CR /\ text[2] = NL
         THEN <<NL>> \o DropCrBeforeLf(SubSeq(text, 3, Len(text)))
         ELSE <<text[1]>> \o DropCrBeforeLf(Tail(text))

CrToLf(text) == [k \in 1..Len(text) |-> IF text[k] = CR THEN NL ELSE text[k]]

\* norm.replace('\n', '\r\n')
RECURSIVE LfToCrLf(_)
LfToCrLf(text) ==
    IF Len(text) = 0 THEN <<>>
    ELSE (IF text[1] = NL THEN <<CR, NL>> ELSE <<text[1]>>) \o LfToCrLf(Tail(text))

\* the text write_file hands to f.write
Normalized(content, le) ==
    LET norm == CrToLf(DropCrBeforeLf(content))
    IN  IF le = CRLF_STYLE THEN LfToCrLf(norm) ELSE norm

(***************************************************************************)
(* The inputs of a call of apply_to_content: the original text, the        *)
(* command list and the engine's current file path.                        *)
(***************************************************************************)

MaxLines == 2
MaxCmds == 2

Replace(start, end, content) ==
    [type |-> "replace", start |-> start, end |-> end, content |-> content]
Delete(start, count) == [type |-> "delete", start |-> start, count |-> count]
Insert(after, content) == [type |-> "insert", after |-> after, content |-> content]

\* the sequences of at most n elements of S
RECURSIVE SeqsUpTo(_, _)
SeqsUpTo(S, n) ==
    IF n = 0 THEN {<<>>}
    ELSE LET shorter == SeqsUpTo(S, n - 1)
         IN  shorter \cup {Append(q, x) : q \in {r \in shorter : Len(r) = n - 1}, x \in S}

\* the text of n characters c
Run(c, n) == [k \in 1..n |-> c]

CsPath == <<"t", ".", "c", "s">>
FilePaths == {None, CsPath}

\* Short originals: every text of 1..MaxLines lines, each line one of these.
ShortLines == {<<"{">>, <<"x">>}
ShortOriginals == {Join(ls) : ls \in SeqsUpTo(ShortLines, MaxLines) \ {<<>>}}

\* The commands tried on a short original of n lines: in range, over the full
\* range, with end < start, at start = n + 1 and n + 2, counts past the end.
ShortCmds(n) ==
    { Replace(1, 1, <<"y">>), Replace(1, n, <<"}">>), Replace(2, 1, <<"y">>),
      Replace(n + 1, n + 1, <<"y">>), Replace(n + 2, n + 2, <<"y">>),
      Replace(n, n, <<"y", NL, "}">>),
      Delete(1, 1), Delete(n, 2), Delete(n + 1, 1),
      Insert(0, <<"}">>), Insert(n, <<"y">>), Insert(n + 2, <<"{">>) }

\* Long originals: n lines "{", "x", ..., "x", "}" around the line count at
\* which the full-replace guard starts to apply.
LongOriginal(n) ==
    Join([k \in 1..n |-> IF k = 1 THEN <<"{">> ELSE IF k = n THEN <<"}">> ELSE <<"x">>])
LongCounts == {FULL_REPLACE_MIN_LINES, FULL_REPLACE_MIN_LINES + 1}
LongOriginals == {LongOriginal(n) : n \in LongCounts}

LongCmds(n) ==
    { Replace(1, n, <<"y">>), Replace(0, n + 1, <<"y">>),
      Replace(1, n, <<"{", NL, "}">>), Replace(1, n - 1, <<"{">>),
      Replace(2, 4, <<"y">>), Replace(n + 1, n + 1, <<"y">>),
      Delete(3, 1), Delete(n, 5), Delete(n + 1, 1),
      Insert(3, <<"y">>) }

\* Fat originals: three lines of x whose trimmed length is at, just above and
\* well above the length at which the size guard starts to apply; the first
\* has two leading blanks, which strip() does not count.
FatOriginal(lead, len) ==
    Run(" ", lead) \o Run("x", len - 140) \o <<NL>> \o Run("x", 69)
    \o <<NL>> \o Run("x", 69)
FatOriginals ==
    { FatOriginal(2, SIZE_GUARD_MIN_CHARS), FatOriginal(0, SIZE_GUARD_MIN_CHARS + 1),
      FatOriginal(0, SIZE_GUARD_MIN_CHARS + 10) }

FatCmds ==
    { Replace(1, 3, Run("y", 20)), Replace(1, 3, Run("y", 21)),
      Replace(1, 1, Run("y", 20)), Replace(2, 3, <<"y">>),
      Delete(1, 3), Delete(2, 2), Insert(0, <<"y">>), Insert(-1, <<"y">>) }

Originals == ShortOriginals \cup LongOriginals \cup FatOriginals

\* the commands tried on an original
CmdsFor(o) ==
    IF o \in ShortOriginals THEN ShortCmds(Len(Split(o)))
    ELSE IF o \in LongOriginals THEN LongCmds(Len(Split(o)))
    ELSE FatCmds

(***************************************************************************)
(* The state of one call of apply_to_content.                              *)
(***************************************************************************)

VARIABLES
    original,           \* the argument original
    commands,           \* the argument commands
    current_filepath,   \* self._current_filepath
    pc,                 \* "call", "loop" or "returned" ("idle": no call)
    file_lines,         \* the line buffer
    msgs,               \* the log
    ok,                 \* the count of applied commands
    errors,             \* the count of failed commands
    idx,                \* how many commands of sorted_cmds the loop has done
    result,             \* the returned pair, once pc = "returned"
    parsed,             \* apply_and_save: the parsed document, in dict order
    disk,               \* the files that exist, with their contents
    disk0,              \* the disk when apply_and_save was called
    results,            \* the list results
    summary,            \* the counters saved, failed, skipped, ...
    ri,                 \* how many items of parsed the edit loop has done
    si,                 \* how many results the save loop has done
    spc,                \* "resolve", "save" or "done" ("idle": no call)
    text,               \* check_brace_balance: the argument text
    sc,                 \* the locals of strip_strings_and_comments, and the
                        \* loop it is in ("idle": no call)
    balance,            \* the pair check_brace_balance returned, None before
    document,           \* parse: the argument text
    doc_lines,          \* parse: the list lines
    file_ops,           \* parse: the list file_ops
    file_blocks,        \* parse: the dict file_blocks, in insertion order
    file_changes,       \* parse: the dict returned, in insertion order
    ppc,                \* "call", "split", "commands", "returned" or, after
                        \* analyze, "analyzed" ("idle": no call)
    analysis,           \* analyze: the dict returned, None before
    oi,                 \* how many items of file_ops the orchestrator has done
    project_path,       \* the argument project_path
    declared,           \* _resolve: the argument fp
    known,              \* _resolve: the argument pm, in dict order
    found,              \* _resolve: the value returned
    rpc                 \* "call" or "returned" ("idle": no call)

engine_vars == <<original, commands, current_filepath, pc, file_lines, msgs, ok,
                 errors, idx, result>>
save_vars == <<parsed, disk, disk0, results, summary, ri, si, spc>>
scan_vars == <<text, sc, balance>>
parse_vars == <<document, doc_lines, file_ops, file_blocks, file_changes, ppc,
                analysis, oi, project_path>>
resolve_vars == <<declared, known, found, rpc>>
vars == <<engine_vars, save_vars, scan_vars, parse_vars, resolve_vars>>

inputs == <<original, commands, current_filepath>>

\* the locals of the loop as one record, and their assignment
es == [file_lines |-> file_lines, msgs |-> msgs, ok |-> ok, errors |-> errors]
SetLocals(new) ==
    /\ file_lines' = new.file_lines
    /\ msgs' = new.msgs
    /\ ok' = new.ok
    /\ errors' = new.errors

orig_count == Len(Split(original))
NextCmd == sorted_cmds(commands)[idx + 1]

\* no apply_and_save call is in progress
NoSummary == [saved |-> 0, failed |-> 0, skipped |-> 0, created |-> 0,
              deleted |-> 0, brace_blocked |-> 0]
SaveIdle ==
    /\ parsed = <<>>
    /\ disk = <<>>
    /\ disk0 = <<>>
    /\ results = <<>>
    /\ summary = NoSummary
    /\ ri = 0
    /\ si = 0
    /\ spc = "idle"

\* the locals of strip_strings_and_comments when its main loop is entered;
\* the flags and depths of the inner loops are set when those are entered
ScanStart(mode) ==
    [mode |-> mode, i |-> 0, res |-> <<>>, in_block_comment |-> FALSE,
     in_line_comment |-> FALSE, is_verbatim |-> FALSE, is_interpolated |-> FALSE,
     interp_depth |-> 0, depth |-> 0, done |-> FALSE]

\* no check_brace_balance call is in progress
ScanIdle ==
    /\ text = <<>>
    /\ sc = ScanStart("idle")
    /\ balance = None

\* no _resolve call of its own is in progress
ResolveIdle ==
    /\ declared = <<>>
    /\ known = <<>>
    /\ found = <<>>
    /\ rpc = "idle"

\* no parse call is in progress
ParseIdle ==
    /\ document = <<>>
    /\ doc_lines = <<>>
    /\ file_ops = <<>>
    /\ file_blocks = <<>>
    /\ file_changes = <<>>
    /\ ppc = "idle"
    /\ analysis = <<>>
    /\ oi = 0
    /\ project_path = <<>>

Init ==
    /\ original \in Originals
    /\ commands \in SeqsUpTo(CmdsFor(original), MaxCmds)
    /\ current_filepath \in FilePaths
    /\ pc = "call"
    /\ file_lines = <<>>
    /\ msgs = <<>>
    /\ ok = 0
    /\ errors = 0
    /\ idx = 0
    /\ result = [text |-> <<>>, msgs |-> <<>>]
    /\ SaveIdle
    /\ ScanIdle
    /\ ParseIdle
    /\ ResolveIdle

\* if not commands: return original, ["[!] no changes"]
ReturnNoChanges ==
    /\ pc = "call"
    /\ Len(commands) = 0
    /\ result' = NoChangesResult(original)
    /\ pc' = "returned"
    /\ UNCHANGED <<inputs, file_lines, msgs, ok, errors, idx>>
    /\ UNCHANGED <<save_vars, scan_vars, resolve_vars, parse_vars>>

\* the set-up of the locals before the loop
Enter ==
    /\ pc = "call"
    /\ Len(commands) > 0
    /\ file_lines' = Split(original)
    /\ pc' = "loop"
    /\ UNCHANGED <<inputs, msgs, ok, errors, idx, result>>
    /\ UNCHANGED <<save_vars, scan_vars, resolve_vars, parse_vars>>

ReplaceStep ==
    /\ pc = "loop"
    /\ idx < Len(commands)
    /\ NextCmd.type = "replace"
    /\ SetLocals(ReplaceCmd(es, NextCmd, orig_count, do_brace(current_filepath)))
    /\ idx' = idx + 1
    /\ UNCHANGED <<inputs, pc, result>>
    /\ UNCHANGED <<save_vars, scan_vars, resolve_vars, parse_vars>>

DeleteStep ==
    /\ pc = "loop"
    /\ idx < Len(commands)
    /\ NextCmd.type = "delete"
    /\ SetLocals(DeleteCmd(es, NextCmd))
    /\ idx' = idx + 1
    /\ UNCHANGED <<inputs, pc, result>>
    /\ UNCHANGED <<save_vars, scan_vars, resolve_vars, parse_vars>>

InsertStep ==
    /\ pc = "loop"
    /\ idx < Len(commands)
    /\ NextCmd.type = "insert"
    /\ SetLocals(InsertCmd(es, NextCmd))
    /\ idx' = idx + 1
    /\ UNCHANGED <<inputs, pc, result>>
    /\ UNCHANGED <<save_vars, scan_vars, resolve_vars, parse_vars>>

\* the code after the loop, up to the return
Return ==
    /\ pc = "loop"
    /\ idx = Len(commands)
    /\ result' = Finish(es, original, Len(commands), do_brace(current_filepath))
    /\ msgs' = result'.msgs
    /\ pc' = "returned"
    /\ UNCHANGED <<inputs, file_lines, ok, errors, idx>>
    /\ UNCHANGED <<save_vars, scan_vars, resolve_vars, parse_vars>>

Next ==
    \/ ReturnNoChanges
    \/ Enter
    \/ ReplaceStep
    \/ DeleteStep
    \/ InsertStep
    \/ Return

Spec == Init /\ [][Next]_vars

(***************************************************************************)
(* Properties of apply_to_content, checked under Spec.                     *)
(***************************************************************************)

Why(m) == IF "why" \in DOMAIN m THEN m.why ELSE ""
Op(m) == IF "op" \in DOMAIN m THEN m.op ELSE ""
LoggedWhy(log, why) == \E k \in 1..Len(log) : Why(log[k]) = why

gate_on == do_brace(current_filepath)

\* C1: with the balance gate on, the text a call returns passes
\* check_brace_balance or is the original text.
C1_GatedResultBalancedOrOriginal ==
    (pc = "returned" /\ gate_on)
        => (check_brace_balance(result.text).ok \/ result.text = original)

\* a gated call whose final check failed on the edited buffer
C1_Witness ==
    /\ pc = "returned"
    /\ gate_on
    /\ LoggedWhy(result.msgs, "FINAL brace check")
    /\ ~check_brace_balance(Join(file_lines)).ok
    /\ result.text = original

\* C3: a call with an empty command list returns the original unchanged and
\* a log that is exactly the one entry "[!] no changes".
C3_EmptyBatchNoChanges ==
    (pc = "returned" /\ Len(commands) = 0)
        => (result.text = original /\ result.msgs = <<NoChanges>>)

C3_Witness ==
    /\ pc = "returned"
    /\ Len(commands) = 0
    /\ Len(result.msgs) = 1
    /\ result.msgs[1].tag = "[!] no changes"

Permuted(q, f) == [i \in 1..Len(q) |-> q[f[i]]]

SameTextInEveryOrder ==
    \A f \in Permutations(1..Len(commands)) :
        apply_to_content(original, Permuted(commands, f), current_filepath).text
            = result.text

DistinctAnchors(cmds) ==
    \A i, j \in 1..Len(cmds) : i # j => AnchorKey(cmds[i]) # AnchorKey(cmds[j])

\* C4 as stated: the returned text is the same for every permutation of the
\* command list.
C4_AnyOrderSameText == pc = "returned" => SameTextInEveryOrder

\* C4, amended: the returned text is the same for every permutation of a
\* command list whose anchors are pairwise distinct (commands of equal anchor
\* are applied in their input order, which the result can depend on).
C4_DistinctAnchorsAnyOrderSameText ==
    (pc = "returned" /\ DistinctAnchors(commands)) => SameTextInEveryOrder

\* a batch given in ascending anchor order, which the sort reverses, and
\* which changed the text
C4_Witness ==
    /\ pc = "returned"
    /\ Len(commands) = 2
    /\ AnchorKey(commands[1]) < AnchorKey(commands[2])
    /\ ok = 2
    /\ result.text # original

\* the last original line a command names (unclamped)
RangeEnd(c) ==
    IF c.type = "replace" THEN c.end
    ELSE IF c.type = "delete" THEN c.start + c.count - 1
    ELSE c.after

\* original line i lies in the range of a Replace or a Delete of cmds
Covered(cmds, i) ==
    \E k \in 1..Len(cmds) :
        /\ cmds[k].type \in {"replace", "delete"}
        /\ cmds[k].start <= i
        /\ i <= RangeEnd(cmds[k])

Occurs(line, lines) == \E j \in 1..Len(lines) : lines[j] = line

WellSeparated(lines, cmds) ==
    /\ \A k \in 1..Len(cmds) :
        LET c == cmds[k] IN
        /\ c.type = "replace" => (1 <= c.start /\ c.start <= c.end /\ c.start <= Len(lines))
        /\ c.type = "delete" => (1 <= c.start /\ c.start <= Len(lines) /\ c.count >= 1)
        /\ c.type = "insert" => (0 <= c.after /\ c.after <= Len(lines))
    /\ \A i, j \in 1..Len(cmds) :
        i # j => /\ AnchorKey(cmds[i]) # AnchorKey(cmds[j])
                 /\ AnchorKey(cmds[i]) < AnchorKey(cmds[j])
                        => RangeEnd(cmds[i]) < AnchorKey(cmds[j])

\* what a well-separated batch makes of original line i (0 stands for the
\* place before the first line), every command read against the original
RefAt(lines, cmds, i) ==
    LET reps == {k \in 1..Len(cmds) : cmds[k].type = "replace" /\ cmds[k].start = i}
        inss == {k \in 1..Len(cmds) : cmds[k].type = "insert" /\ cmds[k].after = i}
        kept == IF i = 0 THEN <<>>
                ELSE IF reps # {} THEN Split(cmds[CHOOSE k \in reps : TRUE].content)
                ELSE IF Covered(cmds, i) THEN <<>>
                ELSE <<lines[i]>>
        added == IF inss # {} THEN Split(cmds[CHOOSE k \in inss : TRUE].content)
                 ELSE <<>>
    IN  kept \o added

RECURSIVE RefUpTo(_, _, _)
RefUpTo(lines, cmds, i) ==
    IF i < 0 THEN <<>> ELSE RefUpTo(lines, cmds, i - 1) \o RefAt(lines, cmds, i)

RefLines(lines, cmds) == RefUpTo(lines, cmds, Len(lines))

AtCmd(kind) == pc = "loop" /\ idx < Len(commands) /\ NextCmd.type = kind

\* the step appended exactly one entry, of the given tag
LoggedOne(tag) == Len(msgs') = Len(msgs) + 1 /\ Last(msgs').tag = tag

CountedError == errors' = errors + 1 /\ ok' = ok
CountedOk == ok' = ok + 1 /\ errors' = errors

IsFullReplace(c, n) == c.type = "replace" /\ c.start <= 1 /\ c.end >= n

\* a step on a Replace over the whole original is blocked by the truncation
\* guard exactly when N > 10 and 10 * replacement_lines < N, and a blocked
\* step leaves the buffer alone, counts an error and logs one [BLOCK]
FullReplaceStep ==
    (AtCmd("replace") /\ IsFullReplace(NextCmd, orig_count)) =>
        LET blocked == LoggedOne("[BLOCK]") /\ Why(Last(msgs')) = "full replace"
            k == Len(Split(NextCmd.content))
        IN  /\ blocked <=> (orig_count > 10 /\ 10 * k < orig_count)
            /\ blocked => (file_lines' = file_lines /\ CountedError)

\* a batch of one blocked command returns the original
LoneFullReplace ==
    (/\ pc = "returned"
     /\ Len(commands) = 1
     /\ IsFullReplace(commands[1], orig_count)
     /\ orig_count > 10
     /\ 10 * Len(Split(commands[1].content)) < orig_count)
        => result.text = original

\* C6: a Replace with start <= 1 and end >= N on an original of N lines is
\* blocked exactly when N > 10 and 10 * replacement_lines < N; the buffer is
\* not changed, an error is counted, a [BLOCK] entry is logged, and a batch
\* of only such a command returns the original.
C6_FullReplaceGuard == [][FullReplaceStep]_vars /\ [](LoneFullReplace)

\* the smallest blocked case: 11 lines replaced by one, alone in its batch
C6_Witness ==
    /\ pc = "returned"
    /\ Len(commands) = 1
    /\ IsFullReplace(commands[1], orig_count)
    /\ orig_count = 11
    /\ Len(Split(commands[1].content)) = 1
    /\ LoggedWhy(result.msgs, "full replace")
    /\ errors = 1
    /\ result.text = original

\* a gated Replace step that gets as far as the splice and whose spliced
\* buffer is unbalanced: the buffer is what it was, [BLOCK] and [ROLLBACK] are
\* logged, an error is counted, and the loop goes on to the next command
RolledBackStep ==
    LET c == NextCmd
        n == Len(file_lines)
        s == Max(c.start - 1, 0)
        e == Min(c.end, n)
        spliced == SubSeq(file_lines, 1, s) \o Split(c.content)
                       \o SubSeq(file_lines, Max(s, e) + 1, n)
        rejected == LoggedOne("[X]")
                    \/ (LoggedOne("[BLOCK]") /\ Why(Last(msgs')) = "full replace")
    IN  (AtCmd("replace") /\ gate_on /\ ~rejected
            /\ ~check_brace_balance(Join(spliced)).ok)
        => /\ file_lines' = file_lines
           /\ Len(msgs') = Len(msgs) + 2
           /\ SubSeq(msgs', 1, Len(msgs)) = msgs
           /\ msgs'[Len(msgs) + 1].tag = "[BLOCK]"
           /\ msgs'[Len(msgs) + 2].tag = "[ROLLBACK]"
           /\ CountedError
           /\ pc' = "loop"
           /\ idx' = idx + 1

\* every command of a batch has been attempted when the call returns
AllAttempted ==
    (pc = "returned" /\ Len(commands) > 0) => ok + errors = Len(commands)

\* C7: with the gate on, a Replace that leaves the buffer unbalanced is
\* undone exactly, [BLOCK] and [ROLLBACK] are logged, the command counts as
\* an error, and the remaining commands are still attempted.
C7_UnbalancedReplaceRolledBack == [][RolledBackStep]_vars /\ [](AllAttempted)

\* a rollback of a Replace that changed the number of lines, followed by a
\* command that was applied
C7_Witness ==
    /\ pc = "returned"
    /\ gate_on
    /\ \E j, k \in 1..Len(msgs) :
        /\ j < k
        /\ msgs[j].tag = "[ROLLBACK]"
        /\ msgs[k].tag = "[OK]"
        /\ \E i \in 1..Len(commands) :
            /\ commands[i].type = "replace"
            /\ commands[i].start = msgs[j].start
            /\ commands[i].end = msgs[j].end
            /\ Len(Split(commands[i].content))
                   # Min(commands[i].end, orig_count) - (commands[i].start - 1)

\* C8: when the trimmed original is longer than 200 characters and the
\* trimmed result is shorter than a tenth of it, the call returns the
\* original and ends its log with a [BLOCK] entry.
C8_SizeGuardDiscards ==
    (/\ pc = "returned"
     /\ Len(commands) > 0
     /\ StripLen(original) > 200
     /\ 10 * StripLen(Join(file_lines)) < StripLen(original))
        => /\ result.text = original
           /\ Last(result.msgs).tag = "[BLOCK]"
           /\ Why(Last(result.msgs)) = "result size"

\* the guard fires on the shortest original it applies to: 201 characters
\* trimmed, 20 left
C8_Witness ==
    /\ pc = "returned"
    /\ StripLen(original) = 201
    /\ StripLen(Join(file_lines)) = 20
    /\ LoggedWhy(result.msgs, "result size")
    /\ result.text = original

ReplaceBeyondLengthStep ==
    (AtCmd("replace") /\ NextCmd.start > Len(file_lines))
        => /\ file_lines' = file_lines
           /\ LoggedOne("[X]")
           /\ CountedError

\* C9 as stated: a Replace whose start exceeds the current buffer length is
\* skipped: the buffer is not changed, an [X] entry is logged and an error is
\* counted.
C9_ReplaceBeyondLengthSkipped == [][ReplaceBeyondLengthStep]_vars

DeleteStepEffect ==
    AtCmd("delete") =>
        LET c == NextCmd
            n == Len(file_lines)
            k == Min(c.count, n - c.start + 1)
        IN  /\ (1 <= c.start /\ c.start <= n)
                => /\ file_lines' = SubSeq(file_lines, 1, c.start - 1)
                                        \o SubSeq(file_lines, c.start + k, n)
                   /\ Len(file_lines') = n - k
                   /\ CountedOk
            /\ c.start > n
                => /\ file_lines' = file_lines
                   /\ LoggedOne("[X]")
                   /\ CountedError

\* C10: a Delete{start, count} whose start is a line of the buffer removes
\* exactly min(count, length - start + 1) lines beginning at start and leaves
\* the others as they were; when start is beyond the buffer nothing is
\* removed, an [X] entry is logged and an error is counted.
C10_DeleteRemovesClampedRange == [][DeleteStepEffect]_vars

\* a batch with a Delete that was clamped at the end of the buffer and a
\* Delete that started beyond it
C10_Witness ==
    /\ pc = "returned"
    /\ \E j \in 1..Len(msgs) :
        /\ msgs[j].tag = "[OK]" /\ Op(msgs[j]) = "DELETE"
        /\ msgs[j].actual < msgs[j].count
    /\ \E j \in 1..Len(msgs) :
        /\ msgs[j].tag = "[X]" /\ Op(msgs[j]) = "DELETE"
        /\ msgs[j].start = msgs[j].length + 1

(***************************************************************************)
(* LineDiffEngine.resolve_and_apply_all and apply_and_save, for documents  *)
(* of FILE blocks (no CREATE FILE or DELETE FILE block), called without a  *)
(* project_path, in a project none of whose files is a ".py" file.  The    *)
(* input is the document as parse returns it: the sequence of the items    *)
(* (declared path, commands) of the dict parsed.  A disk holds the decoded *)
(* text of each file; the encoding and the byte order mark that read_file  *)
(* detects and write_file restores are not part of a result here.          *)
(***************************************************************************)

CURRENT_FILE == <<"__current_file__">>

\* new_content of a result without content (Python's None; not the empty text)
NoContent == <<"None">>

BAK == <<".", "b", "a", "k">>
DigitChars == <<"1", "2", "3", "4", "5", "6", "7", "8", "9">>
Str(n) == <<DigitChars[n]>>

\* bp = rp + '.bak'; n = 1; while os.path.exists(bp): bp = rp + '.bak' + str(n)
RECURSIVE NumberedBackup(_, _, _)
NumberedBackup(rp, dsk, n) ==
    IF (rp \o BAK \o Str(n)) \in DOMAIN dsk THEN NumberedBackup(rp, dsk, n + 1)
    ELSE rp \o BAK \o Str(n)

\* the backup takes the name rp + '.bak' whether it exists or not
PlainBackupPath(rp, dsk) == rp \o BAK

BackupPath(rp, dsk) ==
    IF (rp \o BAK) \in DOMAIN dsk THEN NumberedBackup(rp, dsk, 1) ELSE rp \o BAK

\* the disk dsk with the file at path holding content
WithFile(dsk, path, content) ==
    [q \in DOMAIN dsk \cup {path} |-> IF q = path THEN content ELSE dsk[q]]

Failure(fp, rp, tag) ==
    [filepath |-> fp, resolved_path |-> rp, success |-> FALSE,
     new_content |-> NoContent, messages |-> <<[tag |-> tag]>>,
     line_ending |-> LF_STYLE]

\* the result of one FILE block whose file was read
EditResult(fp, rp, content, r) ==
    LET any_ok == \E k \in 1..Len(r.msgs) : r.msgs[k].tag = "[OK]"
        changed == r.text # content
    IN  [filepath |-> fp, resolved_path |-> rp, success |-> any_ok /\ changed,
         new_content |-> IF changed THEN r.text ELSE NoContent,
         messages |-> r.msgs, line_ending |-> line_ending(content)]

Edited(fp, rp, content, cmds) ==
    CHOOSE er \in {EditResult(fp, rp, content, r) :
                      r \in {apply_to_content(content, cmds, rp)}} : TRUE

\* the pre-save check refuses new_content for the file at rp
PreSaveCheckFails(rp, new_content) ==
    /\ Lower(SplitExt(rp)) \in BRACE_LANGUAGES
    /\ ~check_brace_balance(new_content).ok

(***************************************************************************)
(* The inputs of an apply_and_save call.                                   *)
(***************************************************************************)

MaxBlocks == 2

SrcRel == <<"s", "/", "a", ".", "c", "s">>
LibRel == <<"l", "/", "A", ".", "C", "S">>
TxtRel == <<"n", ".", "t", "x", "t">>
PyRel == <<"m", ".", "p", "y">>
SrcAbs == <<"/", "p", "/">> \o SrcRel
LibAbs == <<"/", "p", "/">> \o LibRel
TxtAbs == <<"/", "p", "/">> \o TxtRel
PyAbs == <<"/", "p", "/">> \o PyRel

\* the project's known-path map; one file of the project has the name of the
\* sentinel key
SentinelAbs == <<"/", "p", "/">> \o CURRENT_FILE
path_map ==
    << <<SrcRel, SrcAbs>>, <<LibRel, LibAbs>>, <<TxtRel, TxtAbs>>,
       <<CURRENT_FILE, SentinelAbs>>, <<PyRel, PyAbs>> >>

\* declared paths: exact, by file name alone (two candidates), unknown
DeclaredPaths ==
    {SrcRel, LibRel, TxtRel, <<"a", ".", "c", "s">>, <<"z", ".", "c", "s">>}

\* command lists: an edit that applies, one that unbalances, one out of
\* range, one that mixes an applied and a rejected command
BlockCmds ==
    { <<Replace(2, 2, <<"y">>)>>,
      <<Insert(0, <<"}">>)>>,
      <<Replace(9, 9, <<"y">>)>>,
      <<Delete(1, 1), Replace(9, 9, <<"y">>)>> }

Blocks == [fp : DeclaredPaths, cmds : BlockCmds]

Documents ==
    {d \in SeqsUpTo(Blocks, MaxBlocks) :
        \A i, j \in 1..Len(d) : i # j => d[i].fp # d[j].fp}
    \cup {<<[fp |-> CURRENT_FILE, cmds |-> c]>> : c \in BlockCmds}

\* file contents: LF lines, CRLF lines, and a line comment that holds a
\* carriage return
LfText == <<"{", NL, "x", NL, "}">>
CrLfText == <<"{", CR, NL, "x", CR, NL, "}">>
CrInComment == <<"/", "/", "{", CR, "}", NL, "x">>

\* the file s/a.cs is LF text, has the comment, or is missing
OtherFiles == (LibAbs :> CrLfText) @@ (TxtAbs :> LfText)
Disks ==
    { (SrcAbs :> LfText) @@ OtherFiles,
      (SrcAbs :> CrInComment) @@ OtherFiles,
      OtherFiles }

\* what the file system does to one save: everything works, the copy
\* fails, open fails, or the write fails after open has truncated the file
IOOutcomes == {"ok", "copy fails", "open fails", "write fails"}

(***************************************************************************)
(* The state machine of an apply_and_save call.                            *)
(***************************************************************************)

EngineIdle ==
    /\ original = <<>>
    /\ commands = <<>>
    /\ current_filepath = None
    /\ pc = "idle"
    /\ file_lines = <<>>
    /\ msgs = <<>>
    /\ ok = 0
    /\ errors = 0
    /\ idx = 0
    /\ result = [text |-> <<>>, msgs |-> <<>>]

SaveInit ==
    /\ EngineIdle
    /\ ScanIdle
    /\ ParseIdle
    /\ ResolveIdle
    /\ parsed \in Documents
    /\ disk0 \in Disks
    /\ disk = disk0
    /\ results = <<>>
    /\ summary = NoSummary
    /\ ri = 0
    /\ si = 0
    /\ spc = "resolve"

AtBlock == spc = "resolve" /\ ri < Len(parsed)
block == parsed[ri + 1]

\* os.path.join(project_path, fp) with '/' as the separator
JoinPath(dir, fp) ==
    IF fp # <<>> /\ fp[1] = "/" THEN fp
    ELSE IF dir # <<>> /\ dir[Len(dir)] = "/" THEN dir \o fp
    ELSE dir \o <<"/">> \o fp

\* rp = self._resolve(fp, path_map); if rp is None and project_path: the
\* file of that name under the project directory, if there is one
ResolvedOnDisk(fp, dsk) ==
    LET rp == _resolve(fp, path_map) IN
    IF rp = None /\ project_path # None /\ JoinPath(project_path, fp) \in DOMAIN dsk
    THEN JoinPath(project_path, fp)
    ELSE rp

resolved == ResolvedOnDisk(block.fp, disk)

AppendResult(r) ==
    /\ results' = Append(results, r)
    /\ ri' = ri + 1
    /\ UNCHANGED <<scan_vars, resolve_vars, parse_vars, engine_vars, parsed, disk, disk0, summary, si, spc>>

\* if fp == '__current_file__'
FileNotSpecified ==
    /\ AtBlock
    /\ block.fp = CURRENT_FILE
    /\ AppendResult(Failure(block.fp, None, "file not specified"))

\* a resolver failure that ends the loop over the file blocks
NotFoundAborts ==
    /\ AtBlock
    /\ block.fp # CURRENT_FILE
    /\ resolved = None
    /\ results' = Append(results, Failure(block.fp, None, "[X] not found"))
    /\ ri' = Len(parsed)
    /\ UNCHANGED <<scan_vars, resolve_vars, parse_vars, engine_vars, parsed, disk,
                   disk0, summary, si, spc>>

\* if rp is None
NotFound ==
    /\ AtBlock
    /\ block.fp # CURRENT_FILE
    /\ resolved = None
    /\ AppendResult(Failure(block.fp, None, "[X] not found"))

\* read_file raises: the file of the path map does not exist
ReadError ==
    /\ AtBlock
    /\ block.fp # CURRENT_FILE
    /\ resolved # None
    /\ resolved \notin DOMAIN disk
    /\ AppendResult(Failure(block.fp, resolved, "[X] read error"))

\* the file is read and apply_to_content run on its content
EditFile ==
    /\ AtBlock
    /\ block.fp # CURRENT_FILE
    /\ resolved # None
    /\ resolved \in DOMAIN disk
    /\ \E rp \in {resolved} :
        \E content \in {disk[rp]} :
            \E r \in {Edited(block.fp, rp, content, block.cmds)} :
                AppendResult(r)

\* return results; apply_and_save starts its loop
StartSaving ==
    /\ spc = "resolve"
    /\ ri = Len(parsed)
    /\ spc' = "save"
    /\ UNCHANGED <<scan_vars, resolve_vars, parse_vars, engine_vars, parsed, disk, disk0, results, summary, ri, si>>

AtResult == spc = "save" /\ si < Len(results)
r_ == results[si + 1]

Bump(field) == summary' = [summary EXCEPT ![field] = @ + 1]

\* any('[CREATED]' in m for m in r['messages']), any("[DELETED" in m ...)
HasTag(r, tag) == \E k \in 1..Len(r.messages) : r.messages[k].tag = tag
IsFileOpResult(r) == HasTag(r, "[CREATED]") \/ HasTag(r, "[DELETED]")

\* if not r['success'] or r['new_content'] is None
NotSaved ==
    /\ AtResult
    /\ ~IsFileOpResult(r_)
    /\ ~(r_.success /\ r_.new_content # NoContent)
    /\ IF r_.resolved_path # None THEN Bump("failed") ELSE Bump("skipped")
    /\ si' = si + 1
    /\ UNCHANGED <<scan_vars, resolve_vars, parse_vars, engine_vars, parsed, disk, disk0, results, ri, spc>>

SaveError(r) ==
    [r EXCEPT !.messages = Append(@, [tag |-> "[X]", why |-> "save error"]),
              !.success = FALSE]

\* what py_compile.compile(path, doraise=True) does after a save: nothing for
\* a file that is not a .py file; for a .py file it writes the bytecode,
\* raises PyCompileError, or raises another exception (the bytecode cannot
\* be written)
PyOutcomes(rp) ==
    IF EndsWith(rp, <<".", "p", "y">>)
    THEN {"compiled", "syntax error", "compile raises"}
    ELSE {"not python"}

\* the bytecode file of a source file (the tag of the interpreter left out)
BytecodePath(rp) ==
    SubSeq(rp, 1, Len(rp) - Len(Last(SplitSlash(rp))))
        \o <<"_", "_", "p", "y", "c", "a", "c", "h", "e", "_", "_", "/">>
        \o Last(SplitSlash(rp)) \o <<"c">>

\* the result after the write and the syntax check
SavedResult(r, bp, pyc) ==
    LET saved == [r EXCEPT !.messages = Append(@, [tag |-> "[SAVED]", backup |-> bp])]
    IN  IF pyc = "compiled"
        THEN [saved EXCEPT !.messages = Append(@, [tag |-> "[SYNTAX OK]"])]
        ELSE IF pyc = "syntax error"
        THEN [saved EXCEPT !.messages = Append(@, [tag |-> "[SYNTAX ERROR]"])]
        ELSE IF pyc = "compile raises"
        THEN [saved EXCEPT !.messages = Append(@, [tag |-> "[X]", why |-> "save error"]),
                           !.success = FALSE]
        ELSE saved

\* the try block of one save candidate
SaveCandidate ==
    /\ AtResult
    /\ ~IsFileOpResult(r_)
    /\ r_.success /\ r_.new_content # NoContent
    /\ \E io \in IOOutcomes :
        LET rp == r_.resolved_path
            bp == BackupPath(rp, disk)
            backed == WithFile(disk, bp, disk[rp])
            norm == Normalized(r_.new_content, r_.line_ending)
        IN
        IF io = "copy fails" THEN
            /\ disk' = disk
            /\ results' = [results EXCEPT ![si + 1] = SaveError(@)]
            /\ Bump("failed")
        ELSE IF PreSaveCheckFails(rp, r_.new_content) THEN
            /\ disk' = backed
            /\ results' = [results EXCEPT ![si + 1] =
                  [@ EXCEPT !.messages = @ \o
                       << [tag |-> "[BLOCK]", why |-> "pre-save brace check FAILED"],
                          [tag |-> "[BLOCK]", why |-> "file NOT saved"] >>,
                            !.success = FALSE]]
            /\ summary' = [summary EXCEPT !.brace_blocked = @ + 1,
                                          !.failed = @ + 1]
        ELSE IF io = "open fails" THEN
            /\ disk' = backed
            /\ results' = [results EXCEPT ![si + 1] = SaveError(@)]
            /\ Bump("failed")
        ELSE IF io = "write fails" THEN
            /\ \E cut \in 0..Max(Len(norm) - 1, 0) :
                  disk' = WithFile(backed, rp, SubSeq(norm, 1, cut))
            /\ results' = [results EXCEPT ![si + 1] = SaveError(@)]
            /\ Bump("failed")
        ELSE
            \E pyc \in PyOutcomes(rp) :
                /\ disk' = IF pyc = "compiled"
                           THEN WithFile(WithFile(backed, rp, norm),
                                         BytecodePath(rp), <<>>)
                           ELSE WithFile(backed, rp, norm)
                /\ results' = [results EXCEPT ![si + 1] = SavedResult(@, bp, pyc)]
                /\ summary' = IF pyc = "compile raises"
                              THEN [summary EXCEPT !.saved = @ + 1, !.failed = @ + 1]
                              ELSE [summary EXCEPT !.saved = @ + 1]
    /\ si' = si + 1
    /\ UNCHANGED <<scan_vars, resolve_vars, parse_vars, engine_vars, parsed, disk0, ri, spc>>

\* return results, {...}
SaveReturn ==
    /\ spc = "save"
    /\ si = Len(results)
    /\ spc' = "done"
    /\ UNCHANGED <<scan_vars, resolve_vars, parse_vars, engine_vars, parsed, disk, disk0, results, summary, ri, si>>

NextSave ==
    \/ FileNotSpecified
    \/ NotFound
    \/ ReadError
    \/ EditFile
    \/ StartSaving
    \/ NotSaved
    \/ SaveCandidate
    \/ SaveReturn

SpecSave == SaveInit /\ [][NextSave]_vars

(***************************************************************************)
(* Properties of apply_and_save, checked under SpecSave.                   *)
(***************************************************************************)

\* the files that an edit block of the document resolved to
EditTargets ==
    {_resolve(parsed[k].fp, path_map) :
        k \in {j \in 1..Len(parsed) : parsed[j].fp # CURRENT_FILE}} \ {None}

SameAsBefore(path) ==
    IF path \in DOMAIN disk0 THEN path \in DOMAIN disk /\ disk[path] = disk0[path]
    ELSE path \notin DOMAIN disk

\* C2 as stated: when apply_and_save has finished, every brace-language
\* file that an edit block targeted has exactly its pre-run content or a
\* content that passes the balance check, whatever failed on the way.
C2_TargetsUntouchedOrBalanced ==
    spc = "done" =>
        \A path \in EditTargets :
            is_brace_language(path) =>
                \/ SameAsBefore(path)
                \/ path \in DOMAIN disk /\ check_brace_balance(disk[path]).ok

(***************************************************************************)
(* Further properties of apply_to_content, checked under Spec.             *)
(***************************************************************************)

InsertStepEffect ==
    AtCmd("insert") =>
        LET c == NextCmd
            n == Len(file_lines)
            at == Max(0, Min(c.after, n))
            new == Split(c.content)
        IN  /\ Len(file_lines') = n + Len(new)
            /\ SubSeq(file_lines', 1, at) = SubSeq(file_lines, 1, at)
            /\ SubSeq(file_lines', at + 1, at + Len(new)) = new
            /\ SubSeq(file_lines', at + Len(new) + 1, n + Len(new))
                   = SubSeq(file_lines, at + 1, n)
            /\ LoggedOne("[OK]")
            /\ CountedOk

\* C11: an Insert{after, content} never fails: after is clamped into
\* [0, current length], the content lines stand together directly after that
\* line, and every line the buffer had is kept, unchanged and in order.
C11_InsertClampsAndSplices == [][InsertStepEffect]_vars

\* a batch with an Insert below 0 and one with an Insert beyond the buffer
C11_Witness ==
    /\ pc = "returned"
    /\ \E j \in 1..Len(msgs) :
        /\ msgs[j].tag = "[OK]" /\ Op(msgs[j]) = "INSERT"
        /\ (msgs[j].after < 0 \/ msgs[j].after > orig_count)
    /\ \E i \in 1..Len(commands) :
        commands[i].type = "insert" /\ commands[i].after > orig_count
    /\ ok = Len(commands)

\* a changed text has a kept command behind it
ChangedMeansKept ==
    result.text # original
        => (ok >= 1 /\ \E k \in 1..Len(result.msgs) : result.msgs[k].tag = "[OK]")

AllFailed == errors = Len(commands)

\* C12 as stated: a returned text that differs from the original has at
\* least one [OK] command behind it, and when every command failed or a
\* destructive-change guard (the full-replace guard of a command or the size
\* guard of the result) fired, the returned text is the original.
C12_TerminalOutcomes ==
    pc = "returned" =>
        /\ ChangedMeansKept
        /\ (AllFailed \/ LoggedWhy(result.msgs, "full replace")
                      \/ LoggedWhy(result.msgs, "result size"))
               => result.text = original

\* C12, amended: a returned text that differs from the original has at
\* least one [OK] command behind it, and when every command failed or the
\* size guard of the whole result fired, the returned text is the original
\* (the full-replace guard drops its own command only).
C12_CommittedOrDiscarded ==
    pc = "returned" =>
        /\ ChangedMeansKept
        /\ (AllFailed \/ LoggedWhy(result.msgs, "result size"))
               => result.text = original

\* a batch with a kept and a failed command that the size guard discarded
C12_Witness ==
    /\ pc = "returned"
    /\ ok >= 1
    /\ errors >= 1
    /\ LoggedWhy(result.msgs, "result size")
    /\ Join(file_lines) # original
    /\ result.text = original

(***************************************************************************)
(* One call of check_brace_balance, with strip_strings_and_comments run    *)
(* one loop pass at a time.  sc.mode names the loop the scanner is in:     *)
(* "main" (line 51), "literal" (108), "nested" (150), "string" (173),      *)
(* "template" (212) or "hole" (224); "returned" once the call is over.     *)
(***************************************************************************)

\* the inputs: an opening of a literal or comment followed by every text
\* of a bounded length over the characters that matter inside it
MaxCode == 3
MaxBody == 4
MaxChar == 6

Family(openers, chars, n) == [openers |-> openers, chars |-> chars, n |-> n]

CodeTexts ==
    Family({<<>>}, {"{", "}", DQ, SQ, BQ, BS, NL, "$", "@", "/", "*", "x"},
           MaxCode)
InterpolatedTexts ==
    Family({<<"$", DQ>>, <<"$", "@", DQ>>, <<"@", "$", DQ>>,
            <<"$", DQ, "{">>, <<"$", "@", DQ, "{">>, <<"@", "$", DQ, "{">>},
           {"{", "}", "(", DQ, BS, NL}, MaxBody)
QuotedTexts == Family({<<DQ>>, <<"@", DQ>>}, {"{", "}", DQ, BS, NL}, MaxBody)
CommentTexts ==
    Family({<<"/", "/">>, <<"/", "*">>}, {"{", "}", "*", "/", NL, DQ}, MaxBody)
CharTexts == Family({<<SQ>>}, {"{", SQ, BS, NL}, MaxChar)
TemplateTexts == Family({<<BQ>>}, {"$", "{", "}", "(", BQ, BS, NL}, MaxBody)
BracketTexts == Family({<<>>}, {"{", "}", "(", ")", "[", "]", NL}, MaxBody)
Families == {CodeTexts, InterpolatedTexts, QuotedTexts, CommentTexts, CharTexts,
             TemplateTexts, BracketTexts}

\* the loop that encloses a loop
Outer(mode) ==
    CASE mode = "nested" -> "literal"
      [] mode = "hole" -> "template"
      [] OTHER -> "main"

\* loops that go on after a break
LoopGoesOnPastBreak(st) ==
    /\ st.i < Len(text)
    /\ st.mode = "hole" => st.depth > 0

\* the while conditions of lines 108, 150, 173, 212 and 224, with the breaks
LoopGoesOn(st) ==
    /\ st.i < Len(text)
    /\ ~st.done
    /\ st.mode = "hole" => st.depth > 0

\* no loop is ever left
StayInLoop(st) == st

\* leaving every loop whose condition no longer holds
Settle(st) ==
    LET up == [st EXCEPT !.mode = Outer(@), !.done = FALSE]
    IN
    IF st.mode = "main" \/ LoopGoesOn(st) THEN st
    ELSE IF up.mode = "main" \/ LoopGoesOn(up) THEN up
    ELSE [up EXCEPT !.mode = "main"]

\* the loop a pass of the main loop enters at text[i], "main" when none
Opener(st) ==
    LET c == Ch(text, st.i)
        pre == LiteralPrefix(text, st.i)
    IN
    IF st.in_block_comment \/ st.in_line_comment THEN "main"
    ELSE IF c \in {"@", "$"} /\ st.i + 1 < Len(text) /\ pre.quote_start # -1
    THEN "literal"
    ELSE IF c = DQ THEN "string"
    ELSE IF c = BQ THEN "template"
    ELSE "main"

ScanInit ==
    /\ EngineIdle
    /\ SaveIdle
    /\ ParseIdle
    /\ ResolveIdle
    /\ \E f \in Families : \E o \in f.openers : \E k \in 0..f.n :
           \E b \in [1..k -> f.chars] : text = o \o b
    /\ sc = ScanStart("main")
    /\ balance = None

\* one pass of the main loop, up to the entry of an inner loop
MainPass ==
    /\ sc.mode = "main"
    /\ sc.i < Len(text)
    /\ LET pre == LiteralPrefix(text, sc.i) IN
       sc' = Settle(
           CASE Opener(sc) = "literal" ->
                  [sc EXCEPT !.mode = "literal", !.i = pre.quote_start,
                             !.is_verbatim = pre.is_verbatim,
                             !.is_interpolated = pre.is_interpolated,
                             !.interp_depth = 0]
             [] Opener(sc) \in {"string", "template"} ->
                  [sc EXCEPT !.mode = Opener(sc), !.i = @ + 1]
             [] OTHER -> StripBody(text, sc))
    /\ UNCHANGED <<text, balance, engine_vars, save_vars, parse_vars, resolve_vars>>

\* one pass of the loop over a verbatim and/or interpolated literal
LiteralPass ==
    /\ sc.mode = "literal"
    /\ sc' = Settle(
           IF ~sc.is_verbatim /\ sc.is_interpolated /\ sc.interp_depth > 0
              /\ Ch(text, sc.i) = DQ
           THEN [sc EXCEPT !.mode = "nested", !.i = @ + 1]
           ELSE PrefixedLiteralBody(text, sc))
    /\ UNCHANGED <<text, balance, engine_vars, save_vars, parse_vars, resolve_vars>>

\* one pass of the loop over a nested string of an interpolation hole
NestedPass ==
    /\ sc.mode = "nested"
    /\ sc' = Settle(NestedStringBody(text, sc))
    /\ UNCHANGED <<text, balance, engine_vars, save_vars, parse_vars, resolve_vars>>

\* one pass of the loop over an ordinary string
StringPass ==
    /\ sc.mode = "string"
    /\ sc' = Settle(RegularStringBody(text, sc))
    /\ UNCHANGED <<text, balance, engine_vars, save_vars, parse_vars, resolve_vars>>

\* one pass of the loop over a template literal, up to the entry of a hole
TemplatePass ==
    /\ sc.mode = "template"
    /\ sc' = Settle(
           IF Ch(text, sc.i) = "$" /\ At(text, sc.i + 1, "{")
           THEN [sc EXCEPT !.mode = "hole", !.i = @ + 2,
                           !.res = Append(@, "{"), !.depth = 1]
           ELSE TemplateLiteralBody(text, sc))
    /\ UNCHANGED <<text, balance, engine_vars, save_vars, parse_vars, resolve_vars>>

\* one pass of the loop over a hole of a template literal
HolePass ==
    /\ sc.mode = "hole"
    /\ sc' = Settle(TemplateHoleBody(text, sc))
    /\ UNCHANGED <<text, balance, engine_vars, save_vars, parse_vars, resolve_vars>>

\* the main loop is over: the scanner returns and check_brace_balance goes
\* over the cleaned text and returns
BalanceReturn ==
    /\ sc.mode = "main"
    /\ sc.i >= Len(text)
    /\ sc' = [sc EXCEPT !.mode = "returned"]
    /\ balance' = check_brace_balance(text)
    /\ UNCHANGED <<text, engine_vars, save_vars, parse_vars, resolve_vars>>

NextScan ==
    \/ MainPass
    \/ LiteralPass
    \/ NestedPass
    \/ StringPass
    \/ TemplatePass
    \/ HolePass
    \/ BalanceReturn

SpecScan == ScanInit /\ [][NextScan]_vars

\* the scanner, pass by pass, computes what strip_strings_and_comments does
ScanAgrees == sc.mode = "returned" => sc.res = strip_strings_and_comments(text)

(***************************************************************************)
(* Properties of the scanner and of check_brace_balance, checked under     *)
(* SpecScan.                                                               *)
(***************************************************************************)

\* the scanner is in the loop `mode` and its next pass reads the character c
Reads(mode, c) == sc.mode = mode /\ sc.i < Len(text) /\ Ch(text, sc.i) = c

\* the next pass of the literal loop handles a brace of an interpolated
\* literal (a brace after a backslash is passed over with the backslash)
AtBrace == sc.mode = "literal" /\ sc.is_interpolated
           /\ (Reads("literal", "{") \/ Reads("literal", "}"))

BracePassEffect ==
    AtBrace =>
        LET c == Ch(text, sc.i) IN
        IF sc.i + 1 < Len(text) /\ Ch(text, sc.i + 1) = c
        THEN /\ sc'.res = sc.res
             /\ sc'.interp_depth = sc.interp_depth
             /\ sc'.i = sc.i + 2
        ELSE /\ sc'.res = Append(sc.res, c)
             /\ sc'.interp_depth = sc.interp_depth + (IF c = "{" THEN 1 ELSE -1)
             /\ sc'.i = sc.i + 1

\* C13: in an interpolated literal a single { or } is emitted and opens or
\* closes a hole (the hole depth goes up or down by one), and a doubled {{
\* or }} is passed over as a pair: nothing is emitted for it and the hole
\* depth stays as it was.
C13_SingleBraceEmittedDoubledSkipped == [][BracePassEffect]_vars

\* $"{{{ : the doubled brace has been passed over and the single one has
\* been emitted and has opened a hole
C13_Witness ==
    /\ Len(text) > 5
    /\ SubSeq(text, 1, 5) = <<"$", DQ, "{", "{", "{">>
    /\ sc.mode = "literal"
    /\ sc.i = 5
    /\ sc.res = <<"{">>
    /\ sc.interp_depth = 1

\* a payload of a char literal: escapes (a backslash and the character after
\* it) and characters other than a backslash, a quote or a line break
RECURSIVE IsPayload(_)
IsPayload(q) ==
    \/ q = <<>>
    \/ Head(q) = BS /\ Len(q) >= 2 /\ IsPayload(Tail(Tail(q)))
    \/ Head(q) \notin {BS, SQ, NL} /\ IsPayload(Tail(q))

\* the lengths n <= 4 of a payload after the quote at text[p] that is
\* followed by a closing quote (there is at most one)
ClosedPayloads(p) ==
    {n \in 0..4 : /\ p + n + 1 < Len(text)
                  /\ Ch(text, p + n + 1) = SQ
                  /\ IsPayload(SubSeq(text, p + 2, p + n + 1))}

\* the next pass of the main loop reads a quote in live code
AtQuote == Reads("main", SQ) /\ ~sc.in_block_comment /\ ~sc.in_line_comment

QuotePassEffect ==
    AtQuote =>
        IF ClosedPayloads(sc.i) # {}
        THEN /\ sc'.res = sc.res
             /\ \E n \in ClosedPayloads(sc.i) : sc'.i = sc.i + n + 2
        ELSE /\ sc'.res = Append(sc.res, SQ)
             /\ sc'.i = sc.i + 1

\* a text that starts with the char literal '{' or '}' gets the verdict of
\* the text without the literal
CharLiteralNeutral ==
    (/\ sc.mode = "returned"
     /\ Len(text) >= 3
     /\ SubSeq(text, 1, 3) \in {<<SQ, "{", SQ>>, <<SQ, "}", SQ>>})
    => balance = check_brace_balance(SubSeq(text, 4, Len(text)))

C15_LineBreaksPreserved ==
    sc.mode = "returned" => CountOf(sc.res, NL) = CountOf(text, NL)

\* the payload of an ordinary string: escapes and characters other than a
\* backslash or a quote
RECURSIVE IsStringPayload(_)
IsStringPayload(q) ==
    \/ q = <<>>
    \/ Head(q) = BS /\ Len(q) >= 2 /\ IsStringPayload(Tail(Tail(q)))
    \/ Head(q) \notin {BS, DQ} /\ IsStringPayload(Tail(q))

\* the payload of a verbatim string: doubled quotes and characters other
\* than a quote
RECURSIVE IsVerbatimPayload(_)
IsVerbatimPayload(q) ==
    \/ q = <<>>
    \/ Head(q) = DQ /\ Len(q) >= 2 /\ q[2] = DQ /\ IsVerbatimPayload(Tail(Tail(q)))
    \/ Head(q) # DQ /\ IsVerbatimPayload(Tail(q))

StartsWith(t, prefix) ==
    Len(t) >= Len(prefix) /\ SubSeq(t, 1, Len(prefix)) = prefix

\* the positions (from 1) at which the literal or comment that opens the
\* text t can end: the last character of its terminator
Terminators(t) ==
    IF StartsWith(t, <<DQ>>) THEN
        {k \in 2..Len(t) : t[k] = DQ /\ IsStringPayload(SubSeq(t, 2, k - 1))}
    ELSE IF StartsWith(t, <<"@", DQ>>) THEN
        {k \in 3..Len(t) : /\ t[k] = DQ
                           /\ IsVerbatimPayload(SubSeq(t, 3, k - 1))
                           /\ (k = Len(t) \/ t[k + 1] # DQ)}
    ELSE IF StartsWith(t, <<"/", "/">>) THEN
        {k \in 3..Len(t) : t[k] = NL /\ \A j \in 3..(k - 1) : t[j] # NL}
    ELSE IF StartsWith(t, <<"/", "*">>) THEN
        {k \in 4..Len(t) : /\ t[k - 1] = "*" /\ t[k] = "/"
                           /\ \A j \in 4..(k - 1) : ~(t[j - 1] = "*" /\ t[j] = "/")}
    ELSE {}

OnlyLineBreaks(q) == \A k \in 1..Len(q) : q[k] = NL

OpensDroppedText(t) ==
    \/ StartsWith(t, <<DQ>>)
    \/ StartsWith(t, <<"@", DQ>>)
    \/ StartsWith(t, <<"/", "/">>)
    \/ StartsWith(t, <<"/", "*">>)

\* C16: of an ordinary string, a verbatim string, a line comment or a block
\* comment nothing but line breaks reaches the output, and the text after
\* its terminator is scanned as if it stood alone; when the terminator is
\* missing the whole output is line breaks.
C16_DroppedTextThenLiveCode ==
    (sc.mode = "returned" /\ OpensDroppedText(text)) =>
        IF Terminators(text) = {} THEN OnlyLineBreaks(sc.res)
        ELSE \A k \in Terminators(text) :
               \E rest \in {strip_strings_and_comments(SubSeq(text, k + 1, Len(text)))} :
                 \E j \in 0..Len(sc.res) :
                    /\ OnlyLineBreaks(SubSeq(sc.res, 1, j))
                    /\ SubSeq(sc.res, j + 1, Len(sc.res)) = rest

\* "{"{ : the brace inside the string is dropped and the one after it kept
C16_Witness ==
    /\ text = <<DQ, "{", DQ, "{">>
    /\ sc.mode = "returned"
    /\ sc.res = <<"{">>

\* the next pass of the literal loop reads the character c inside a hole of
\* an interpolated literal
InHole(c) == Reads("literal", c) /\ sc.is_interpolated /\ sc.interp_depth > 0

InterpolationHoleEffect ==
    /\ InHole("(") => sc'.res = Append(sc.res, "(") /\ sc'.i = sc.i + 1
    /\ InHole(DQ) => /\ sc'.res = sc.res
                     /\ sc'.interp_depth = sc.interp_depth
                     /\ sc'.i = sc.i + 1
                     /\ sc'.mode = "nested" \/ sc'.i >= Len(text)

\* C17: inside a hole of an interpolated literal, whatever its prefix, a
\* bracket of the expression is emitted, and a quote opens a nested string:
\* nothing is emitted for it, the hole stays open and the scanner goes on
\* inside the nested string (unless the text ends there).
C17_HoleIsLiveCode == [][InterpolationHoleEffect]_vars

\* every pass of every loop moves the scan index forward
Advances == sc'.i > sc.i \/ sc'.mode = "returned"

\* the scan index stays within one character of the end of the text, and
\* inside a loop the character the next pass reads exists
ReadsInRange ==
    /\ sc.i <= Len(text) + 1
    /\ sc.mode \notin {"main", "returned"} => sc.i < Len(text)

\* until the call has returned the scanner is in a loop whose next pass can
\* be taken, or at the end of the main loop, where it returns
NeverStuck ==
    \/ sc.mode = "returned"
    \/ sc.mode = "main"
    \/ sc.mode \in {"literal", "nested", "string", "template", "hole"}
       /\ LoopGoesOn(sc)

\* C18: the scanner returns on every text, also when the text ends inside a
\* literal or a comment or right after a backslash or a prefix marker: each
\* pass moves the scan index forward, the index never passes the end of the
\* text by more than the character after a backslash (so there are at most
\* Len(text) + 1 passes), a pass only reads characters that exist, and
\* there is always a next pass until the call returns.
C18_ScannerTerminatesInRange ==
    /\ [][Advances]_vars
    /\ [](ReadsInRange)
    /\ [](NeverStuck)

\* "\ : the text ends after the backslash inside an unterminated string and
\* the scanner has returned with its index one past the end
C18_Witness ==
    /\ text = <<DQ, BS>>
    /\ sc.mode = "returned"
    /\ sc.i = Len(text) + 1
    /\ sc.res = <<>>

\* well-nestedness, defined without a stack: the brackets of a text, and
\* what is left of them when adjacent pairs of an opening bracket and its
\* closing bracket are struck out until there is none
Pairs == {<<"{", "}">>, <<"(", ")">>, <<"[", "]">>}
IsBracket(c) == \E pr \in Pairs : c \in {pr[1], pr[2]}
IsClosing(c) == \E pr \in Pairs : c = pr[2]
Brackets(q) == SelectSeq(q, IsBracket)

AdjacentPairs(q) == {k \in 1..(Len(q) - 1) : <<q[k], q[k + 1]>> \in Pairs}

RECURSIVE Cancel(_)
Cancel(q) ==
    IF AdjacentPairs(q) = {} THEN q
    ELSE LET k == CHOOSE k \in AdjacentPairs(q) : \A j \in AdjacentPairs(q) : k <= j
         IN Cancel(SubSeq(q, 1, k - 1) \o SubSeq(q, k + 2, Len(q)))

WellNested(q) == Cancel(Brackets(q)) = <<>>

\* what is left open after the first k characters of q
LeftOpen(q, k) == Cancel(Brackets(SubSeq(q, 1, k)))

\* the positions of the closing brackets of q that close nothing: what is
\* left open before them does not end with their opening bracket
Offending(q) ==
    {k \in 1..Len(q) :
        /\ IsClosing(q[k])
        /\ LET open == LeftOpen(q, k - 1) IN
           open = <<>> \/ <<open[Len(open)], q[k]>> \notin Pairs}

LineOf(q, k) == 1 + CountOf(SubSeq(q, 1, k - 1), NL)

SameLetter(a, b) ==
    a = b \/ \E k \in 1..26 : {a, b} = {UpperCase[k], LowerCase[k]}

\* the file name of path ends with one of the bracket-language extensions,
\* in any mix of cases
HasBraceExtension(path) ==
    \E e \in BRACE_LANGUAGES :
        /\ Len(path) > Len(e)
        /\ path[Len(path) - Len(e)] \notin {"/", BS, "."}
        /\ \A k \in 1..Len(e) : SameLetter(path[Len(path) - Len(e) + k], e[k])

BalanceReasons ==
    {"brace imbalance", "FINAL brace check", "entire patch rejected",
     "pre-save brace check FAILED", "file NOT saved"}

RejectedForBalance(r) ==
    \E k \in 1..Len(r.messages) : Why(r.messages[k]) \in BalanceReasons

\* C20: the gate follows the extension of the resolved path alone, in any
\* case: the result for a file with a bracket-language extension never
\* holds new content that fails check_brace_balance, and the result for
\* any other file never has a command rolled back, a batch discarded or a
\* save refused because of bracket imbalance.
C20_GateFollowsExtension ==
    \A k \in 1..Len(results) :
        LET r == results[k] IN
        r.resolved_path # None =>
            IF HasBraceExtension(r.resolved_path)
            THEN r.new_content # NoContent => check_brace_balance(r.new_content).ok
            ELSE ~RejectedForBalance(r)

\* the same unbalancing edit was refused for l/A.CS and saved to n.txt
C20_Witness ==
    /\ spc = "done"
    /\ \E k, j \in 1..Len(results) :
          /\ results[k].resolved_path = LibAbs
          /\ RejectedForBalance(results[k])
          /\ disk[LibAbs] = disk0[LibAbs]
          /\ results[j].resolved_path = TxtAbs
          /\ results[j].success
    /\ disk[TxtAbs] # disk0[TxtAbs]
    /\ ~check_brace_balance(disk[TxtAbs]).ok

(***************************************************************************)
(* LineDiffParser.  A line is a text without line breaks.  The regular     *)
(* expressions are modelled by matchers that walk the line from the left;  *)
(* a matcher returns NoMatch or the record of its groups.  Positions are   *)
(* counted from 1.                                                         *)
(***************************************************************************)

NoMatch == <<>>

Digits == <<"0", "1", "2", "3", "4", "5", "6", "7", "8", "9">>
IsDigit(c) == \E k \in 1..10 : Digits[k] = c

\* int(digits)
RECURSIVE ToInt(_)
ToInt(q) ==
    IF q = <<>> THEN 0
    ELSE 10 * ToInt(SubSeq(q, 1, Len(q) - 1))
         + (CHOOSE k \in 1..10 : Digits[k] = q[Len(q)]) - 1

\* \s* from position p: the position of the first non-blank character
SkipSpaces(line, p) ==
    LET solid == {k \in p..Len(line) : ~IsSpace(line[k])}
    IN  IF solid = {} THEN Max(p, Len(line) + 1)
        ELSE CHOOSE k \in solid : \A j \in solid : k <= j

\* ={2,} or \d+ from position p: the position after the run of such characters
AfterEquals(line, p) ==
    LET other == {k \in p..Len(line) : line[k] # "="}
    IN  IF other = {} THEN Max(p, Len(line) + 1)
        ELSE CHOOSE k \in other : \A j \in other : k <= j
AfterDigits(line, p) ==
    LET other == {k \in p..Len(line) : ~IsDigit(line[k])}
    IN  IF other = {} THEN Max(p, Len(line) + 1)
        ELSE CHOOSE k \in other : \A j \in other : k <= j

\* the word stands at position p; with re.IGNORECASE in any letter case
HasWord(line, p, word, ignorecase) ==
    /\ p + Len(word) - 1 <= Len(line)
    /\ \A k \in 1..Len(word) :
          IF ignorecase THEN LowerChar(line[p + k - 1]) = LowerChar(word[k])
          ELSE line[p + k - 1] = word[k]

\* ^\s*={2,}\s* : the position after it, 0 when it does not match
HeaderOpen(line) ==
    LET p == SkipSpaces(line, 1)
        q == AfterEquals(line, p)
    IN  IF q - p >= 2 THEN SkipSpaces(line, q) ELSE 0

\* \s*={2,}\s*$ matches the rest of the line from position p
HeaderClose(line, p) ==
    LET q == SkipSpaces(line, p)
        r == AfterEquals(line, q)
    IN  r - q >= 2 /\ SkipSpaces(line, r) = Len(line) + 1

\* \s*(.+?)\s*={2,}\s*$ from position p: group 1, or NoMatch.  The blanks
\* before the group are taken greedily, the group lazily.
HeaderPath(line, p) ==
    LET ends(a) == {b \in a..Len(line) : HeaderClose(line, b + 1)}
        starts == {a \in p..SkipSpaces(line, p) : ends(a) # {}}
        a == CHOOSE a \in starts : \A j \in starts : j <= a
        b == CHOOSE b \in ends(a) : \A j \in ends(a) : b <= j
    IN  IF starts = {} THEN NoMatch ELSE [path |-> SubSeq(line, a, b)]

FILE_COLON == <<"F", "I", "L", "E", ":">>
FILE_WORD == <<"F", "I", "L", "E">>
END_WORD == <<"E", "N", "D">>
CREATE_WORD == <<"C", "R", "E", "A", "T", "E">>
DELETE_WORD == <<"D", "E", "L", "E", "T", "E">>
REPLACE_WORD == <<"R", "E", "P", "L", "A", "C", "E">>
INSERT_WORD == <<"I", "N", "S", "E", "R", "T">>

\* a word, \s+ and a second word from position p: the position after them,
\* 0 when they do not match
TwoWords(line, p, first, second, ignorecase) ==
    LET q == p + Len(first)
        r == SkipSpaces(line, q)
    IN  IF HasWord(line, p, first, ignorecase) /\ r > q
           /\ HasWord(line, r, second, ignorecase)
        THEN r + Len(second) ELSE 0

RE_FILE_START(line) ==
    LET p == HeaderOpen(line) IN
    IF p # 0 /\ HasWord(line, p, FILE_COLON, FALSE)
    THEN HeaderPath(line, p + Len(FILE_COLON)) ELSE NoMatch

RE_FILE_END(line) ==
    LET p == HeaderOpen(line)
        q == TwoWords(line, p, END_WORD, FILE_WORD, FALSE)
    IN  IF p # 0 /\ q # 0 /\ HeaderClose(line, q) THEN [end |-> TRUE] ELSE NoMatch

RE_CREATE_FILE(line) ==
    LET p == HeaderOpen(line)
        q == TwoWords(line, p, CREATE_WORD, FILE_COLON, FALSE)
    IN  IF p # 0 /\ q # 0 THEN HeaderPath(line, q) ELSE NoMatch

RE_DELETE_FILE(line) ==
    LET p == HeaderOpen(line)
        q == TwoWords(line, p, DELETE_WORD, FILE_COLON, FALSE)
    IN  IF p # 0 /\ q # 0 THEN HeaderPath(line, q) ELSE NoMatch

\* ^\s*@@\s* : the position after it, 0 when it does not match
CommandOpen(line) ==
    LET p == SkipSpaces(line, 1) IN
    IF HasWord(line, p, <<"@", "@">>, FALSE) THEN SkipSpaces(line, p + 2) ELSE 0

\* (\d+) from position p: [value, next], or NoMatch
Number(line, p) ==
    LET q == AfterDigits(line, p) IN
    IF p >= 1 /\ q > p THEN [value |-> ToInt(SubSeq(line, p, q - 1)), next |-> q]
    ELSE NoMatch

\* \s+WORD\s*$ from position p
LastWord(line, p, word) ==
    LET q == SkipSpaces(line, p) IN
    /\ q > p
    /\ HasWord(line, q, word, TRUE)
    /\ SkipSpaces(line, q + Len(word)) = Len(line) + 1

RE_CMD_REPLACE(line) ==
    LET p == CommandOpen(line)
        n1 == Number(line, p)
        dash == SkipSpaces(line, n1.next)
        n2 == Number(line, SkipSpaces(line, dash + 1))
    IN  IF p # 0 /\ n1 # NoMatch /\ HasWord(line, dash, <<"-">>, FALSE)
           /\ n2 # NoMatch /\ LastWord(line, n2.next, REPLACE_WORD)
        THEN [start |-> n1.value, end |-> n2.value] ELSE NoMatch

RE_CMD_DELETE(line) ==
    LET p == CommandOpen(line)
        n1 == Number(line, p)
        q == SkipSpaces(line, n1.next)
        r == SkipSpaces(line, q + Len(DELETE_WORD))
        n2 == Number(line, r)
    IN  IF p # 0 /\ n1 # NoMatch /\ q > n1.next
           /\ HasWord(line, q, DELETE_WORD, TRUE) /\ r > q + Len(DELETE_WORD)
           /\ n2 # NoMatch /\ SkipSpaces(line, n2.next) = Len(line) + 1
        THEN [start |-> n1.value, count |-> n2.value] ELSE NoMatch

RE_CMD_INSERT(line) ==
    LET p == CommandOpen(line)
        n1 == Number(line, p)
    IN  IF p # 0 /\ n1 # NoMatch /\ LastWord(line, n1.next, INSERT_WORD)
        THEN [after |-> n1.value] ELSE NoMatch

RE_CMD_END(line) ==
    LET p == CommandOpen(line) IN
    IF p # 0 /\ HasWord(line, p, END_WORD, TRUE)
       /\ SkipSpaces(line, p + Len(END_WORD)) = Len(line) + 1
    THEN [end |-> TRUE] ELSE NoMatch

\* text.strip() and text.strip(chars)
StripChars(s, chars) ==
    LET solid == {k \in 1..Len(s) : s[k] \notin chars}
        first == CHOOSE k \in solid : \A j \in solid : k <= j
        last == CHOOSE k \in solid : \A j \in solid : j <= k
    IN  IF solid = {} THEN <<>> ELSE SubSeq(s, first, last)

\* m.group(1).strip().strip('`\'"')
HeaderFp(m) == StripChars(StripChars(m.path, {" ", NL, CR, "\t"}), {BQ, SQ, DQ})

Matches(m) == m # NoMatch

\* the smallest index of hits, or otherwise when there is none
FirstOf(hits, otherwise) ==
    IF hits = {} THEN otherwise
    ELSE CHOOSE j \in hits : \A k \in hits : j <= k

\* no line closes a CREATE FILE block or a FILE block
NeverFileEnd(line) == FALSE

IsFileEnd(line) == Matches(RE_FILE_END(line))

\* _parse_file_ops from the line of index i (counted from 1)
RECURSIVE FileOpsFrom(_, _)
FileOpsFrom(lines, i) ==
    IF i > Len(lines) THEN <<>>
    ELSE IF Matches(RE_CREATE_FILE(lines[i]))
    THEN LET e == FirstOf({j \in (i + 1)..Len(lines) : IsFileEnd(lines[j])},
                          Len(lines) + 1)
         IN  <<[op |-> "create", path |-> HeaderFp(RE_CREATE_FILE(lines[i])),
                content |-> Join(SubSeq(lines, i + 1, e - 1))]>>
             \o FileOpsFrom(lines, e + 1)
    ELSE IF Matches(RE_DELETE_FILE(lines[i]))
    THEN <<[op |-> "delete", path |-> HeaderFp(RE_DELETE_FILE(lines[i]))]>>
         \o FileOpsFrom(lines, i + 1)
    ELSE FileOpsFrom(lines, i + 1)

_parse_file_ops(lines) == FileOpsFrom(lines, 1)

\* the line numbers (from 1) of the FILE headers, in order
Headers(lines) ==
    LET is_header(i) ==
            /\ ~(Matches(RE_CREATE_FILE(lines[i])) \/ Matches(RE_DELETE_FILE(lines[i])))
            /\ Matches(RE_FILE_START(lines[i]))
        RECURSIVE from(_)
        from(i) == IF i > Len(lines) THEN <<>>
                   ELSE IF is_header(i) THEN <<i>> \o from(i + 1)
                   ELSE from(i + 1)
    IN  from(1)

\* blocks[fp] = block, or blocks[fp].extend(block); the dict in insertion order
Extended(blocks, fp, blk) ==
    IF \E k \in 1..Len(blocks) : blocks[k].fp = fp
    THEN [k \in 1..Len(blocks) |->
            IF blocks[k].fp = fp
            THEN [fp |-> fp, lines |-> blocks[k].lines \o blk]
            ELSE blocks[k]]
    ELSE Append(blocks, [fp |-> fp, lines |-> blk])

\* the lines from the header hi up to the next header or the end
BlockToNextHeader(lines, headers, hi) ==
    SubSeq(lines, headers[hi] + 1,
           IF hi < Len(headers) THEN headers[hi + 1] - 1 ELSE Len(lines))

\* the lines of the block of the header hi: up to the first END FILE line
\* before the next header, else up to the next header or the end
BlockOf(lines, headers, hi) ==
    LET start == headers[hi] + 1
        next_header == IF hi < Len(headers) THEN headers[hi + 1] ELSE Len(lines) + 1
        end_line == FirstOf({j \in start..(next_header - 1) : IsFileEnd(lines[j])},
                            next_header)
    IN  SubSeq(lines, start, end_line - 1)

RECURSIVE BlocksUpTo(_, _, _)
BlocksUpTo(lines, headers, hi) ==
    IF hi = 0 THEN <<>>
    ELSE Extended(BlocksUpTo(lines, headers, hi - 1),
                  HeaderFp(RE_FILE_START(lines[headers[hi]])),
                  BlockOf(lines, headers, hi))

_split_files(lines) ==
    CHOOSE blocks \in {BlocksUpTo(lines, headers, Len(headers)) :
                          headers \in {Headers(lines)}} : TRUE

\* the lines at which a REPLACE or INSERT body stops
IsCmdEnd(line) == Matches(RE_CMD_END(line))
Preempts(line) ==
    \/ Matches(RE_CMD_REPLACE(line))
    \/ Matches(RE_CMD_DELETE(line))
    \/ Matches(RE_CMD_INSERT(line))
    \/ Matches(RE_FILE_END(line))
    \/ Matches(RE_FILE_START(line))
EndsBody(line) == IsCmdEnd(line) \/ Preempts(line)

\* where parsing goes on after a body that stopped at the line e: an
\* @@ END line is consumed, any other stopping line is not
AfterBodyConsuming(lines, e) == e + 1
AfterBody(lines, e) ==
    IF e <= Len(lines) /\ IsCmdEnd(lines[e]) THEN e + 1 ELSE e

\* _parse_commands from the line of index i (counted from 1)
RECURSIVE CommandsFrom(_, _)
CommandsFrom(lines, i) ==
    IF i > Len(lines) THEN <<>>
    ELSE CHOOSE cmds \in
             {IF Matches(m.replace)
              THEN <<Replace(m.replace.start, m.replace.end,
                             Join(SubSeq(lines, i + 1, e - 1)))>>
                   \o CommandsFrom(lines, AfterBody(lines, e))
              ELSE IF Matches(m.delete)
              THEN <<Delete(m.delete.start, m.delete.count)>>
                   \o CommandsFrom(lines, i + 1)
              ELSE IF Matches(m.insert)
              THEN <<Insert(m.insert.after, Join(SubSeq(lines, i + 1, e - 1)))>>
                   \o CommandsFrom(lines, AfterBody(lines, e))
              ELSE CommandsFrom(lines, i + 1) :
                 m \in {[replace |-> RE_CMD_REPLACE(lines[i]),
                         delete |-> RE_CMD_DELETE(lines[i]),
                         insert |-> RE_CMD_INSERT(lines[i])]},
                 e \in {FirstOf({j \in (i + 1)..Len(lines) : EndsBody(lines[j])},
                                Len(lines) + 1)}} : TRUE

_parse_commands(lines) == CommandsFrom(lines, 1)

\* TextNormalizer.full on a text without invisible characters and without
\* decomposed characters: only the line endings change.  The text is cut in
\* halves, never between a carriage return and its line feed.
RECURSIVE TextNormalizerFull(_)
TextNormalizerFull(s) ==
    LET m == (Len(s) + 1) \div 2 IN
    IF Len(s) <= 1 THEN CrToLf(s)
    ELSE IF s[m] = CR /\ s[m + 1] = NL
    THEN TextNormalizerFull(SubSeq(s, 1, m - 1)) \o <<NL>>
         \o TextNormalizerFull(SubSeq(s, m + 2, Len(s)))
    ELSE TextNormalizerFull(SubSeq(s, 1, m)) \o TextNormalizerFull(SubSeq(s, m + 1, Len(s)))

\* text.split('\n') of a long text: cut at the line feed nearest the middle
RECURSIVE SplitLines(_)
SplitLines(s) ==
    LET feeds == {k \in 1..Len(s) : s[k] = NL}
        far(k) == IF 2 * k >= Len(s) THEN 2 * k - Len(s) ELSE Len(s) - 2 * k
        p == CHOOSE k \in feeds : \A j \in feeds : far(k) <= far(j)
    IN  IF feeds = {} THEN <<s>>
        ELSE SplitLines(SubSeq(s, 1, p - 1)) \o SplitLines(SubSeq(s, p + 1, Len(s)))

\* result[fp] = cmds, or result[fp].extend(cmds), for the blocks with commands
RECURSIVE BlockCommands(_)
BlockCommands(blocks) ==
    IF blocks = <<>> THEN <<>>
    ELSE CHOOSE changes \in
             {IF cmds = <<>> THEN front
              ELSE IF \E k \in 1..Len(front) : front[k].fp = last.fp
              THEN [k \in 1..Len(front) |->
                      IF front[k].fp = last.fp
                      THEN [fp |-> last.fp, cmds |-> front[k].cmds \o cmds]
                      ELSE front[k]]
              ELSE Append(front, [fp |-> last.fp, cmds |-> cmds]) :
                 front \in {BlockCommands(SubSeq(blocks, 1, Len(blocks) - 1))},
                 last \in {blocks[Len(blocks)]},
                 cmds \in {_parse_commands(blocks[Len(blocks)].lines)}} : TRUE

\* parse: the pair (file_changes, file_ops); file_changes in dict order
parse(s) ==
    IF \A k \in 1..Len(s) : IsSpace(s[k])
    THEN [file_changes |-> <<>>, file_ops |-> <<>>]
    ELSE LET lines == SplitLines(TextNormalizerFull(s))
             blocks == _split_files(lines)
             cmds == _parse_commands(lines)
         IN  [file_changes |->
                 IF blocks = <<>>
                 THEN IF cmds # <<>> THEN <<[fp |-> CURRENT_FILE, cmds |-> cmds]>>
                      ELSE <<>>
                 ELSE BlockCommands(blocks),
              file_ops |-> _parse_file_ops(lines)]

(***************************************************************************)
(* The documents parse is called with: up to MaxSegments segments, each a  *)
(* few lines, joined by line feeds.  The lines ending in a carriage return *)
(* are the lines of a CRLF document.                                       *)
(***************************************************************************)

FILE_A ==
    <<"=", "=", "=", " ", "F", "I", "L", "E", ":",
      " ", "a", ".", "c", "s", " ", "=", "=", "=">>
FILE_B ==
    <<"=", "=", " ", "F", "I", "L", "E", ":", " ",
      "bq", "b", ".", "c", "s", "bq", " ", "=", "=", "\r">>
FILE_C_LOWER ==
    <<"=", "=", "=", " ", "f", "i", "l", "e", ":",
      " ", "c", ".", "c", "s", " ", "=", "=", "=">>
FILE_Q ==
    <<"=", "=", "=", " ", "F", "I", "L", "E", ":", " ", "q", ".", "c", "s", " ", "=", "=", "=">>
END_FILE ==
    <<"=", "=", "=", " ", "E", "N", "D", " ",
      "F", "I", "L", "E", " ", "=", "=", "=">>
END_FILE_CR ==
    <<"=", "=", " ", "E", "N", "D", " ",
      "F", "I", "L", "E", " ", "=", "=", "\r">>
END_FILE_LOWER ==
    <<"=", "=", "=", " ", "e", "n", "d", " ",
      "f", "i", "l", "e", " ", "=", "=", "=">>
CREATE_N ==
    <<"=", "=", "=", " ", "C", "R", "E", "A", "T", "E", " ", "F",
      "I", "L", "E", ":", " ", "n", ".", "c", "s", " ", "=", "=", "=">>
DELETE_A ==
    <<"=", "=", "=", " ", "D", "E", "L", "E", "T", "E", " ", "F",
      "I", "L", "E", ":", " ", "a", ".", "c", "s", " ", "=", "=", "=">>
REPLACE_2_2 ==
    <<"@", "@", " ", "2", "-", "2", " ", "R", "E", "P", "L", "A", "C", "E">>
REPLACE_5_6 ==
    <<"@", "@", " ", "5", "-", "6", " ", "R", "E", "P", "L", "A", "C", "E">>
DELETE_3_1 ==
    <<"@", "@", " ", "3", " ", "D", "E", "L", "E", "T", "E", " ", "1", "\r">>
DELETE_9_9 ==
    <<"@", "@", " ", "9", " ", "D", "E", "L", "E", "T", "E", " ", "9">>
INSERT_1 == <<"@", "@", " ", "1", " ", "I", "N", "S", "E", "R", "T">>
INSERT_2_LOWER == <<"@", "@", " ", "2", " ", "i", "n", "s", "e", "r", "t">>
CMD_END == <<"@", "@", " ", "E", "N", "D">>
CMD_END_LOWER == <<"@", "@", " ", "e", "n", "d">>

\* a closed block of a.cs with a terminated REPLACE
FileBlockA == <<FILE_A, REPLACE_2_2, <<"y">>, CMD_END, END_FILE>>
\* a closed block of b.cs with a DELETE, CRLF line ends and a quoted path
FileBlockB == <<FILE_B, DELETE_3_1, END_FILE_CR>>
\* the keywords in lower case
LowerCaseBlock == <<FILE_C_LOWER, INSERT_2_LOWER, <<"y">>, CMD_END_LOWER, END_FILE_LOWER>>
\* a closed CREATE FILE block whose content looks like a command
CreateBlock == <<CREATE_N, DELETE_9_9, END_FILE>>
\* a closed CREATE FILE block whose content holds a FILE header
CreateWithHeader == <<CREATE_N, FILE_Q, DELETE_9_9, END_FILE>>
\* a CREATE FILE block without END FILE
OpenCreate == <<CREATE_N, <<"z">>>>
DeleteFileLine == <<DELETE_A>>
\* an INSERT without @@ END
OpenInsert == <<INSERT_1, <<"y">>>>
\* a FILE header followed by a REPLACE without @@ END and without END FILE
OpenBlockA == <<FILE_A, REPLACE_5_6, <<"w">>>>
EndFileLine == <<END_FILE>>

Segments ==
    {FileBlockA, FileBlockB, LowerCaseBlock, CreateBlock, CreateWithHeader,
     OpenCreate, DeleteFileLine, OpenInsert, OpenBlockA, EndFileLine}

MaxSegments == 3

\* the lines of a list of segments
RECURSIVE Flat(_)
Flat(segs) == IF segs = <<>> THEN <<>> ELSE Head(segs) \o Flat(Tail(segs))

(***************************************************************************)
(* The state machine of a parse call.                                      *)
(***************************************************************************)

ParseInit ==
    /\ EngineIdle
    /\ ResolveIdle
    /\ SaveIdle
    /\ ScanIdle
    /\ \E n \in 0..MaxSegments : \E segs \in [1..n -> Segments] :
           document = Join(Flat(segs))
    /\ doc_lines = <<>>
    /\ file_ops = <<>>
    /\ file_blocks = <<>>
    /\ file_changes = <<>>
    /\ ppc = "call"
    /\ analysis = None
    /\ oi = 0
    /\ project_path = None

Blank(s) == \A k \in 1..Len(s) : IsSpace(s[k])

\* if not text or not text.strip(): return {}, []
ParseNothing ==
    /\ ppc = "call"
    /\ Blank(document)
    /\ ppc' = "returned"
    /\ UNCHANGED <<document, doc_lines, file_ops, file_blocks, file_changes,
                   analysis, oi, project_path, engine_vars, save_vars, scan_vars, resolve_vars>>

\* the text is normalised and split, and _parse_file_ops run on the lines
ParseFileOps ==
    /\ ppc = "call"
    /\ ~Blank(document)
    /\ \E ls \in {SplitLines(TextNormalizerFull(document))} :
          /\ doc_lines' = ls
          /\ file_ops' = _parse_file_ops(ls)
    /\ ppc' = "split"
    /\ UNCHANGED <<document, file_blocks, file_changes, analysis, oi,
                   project_path, engine_vars, save_vars, scan_vars, resolve_vars>>

\* file_blocks = self._split_files(lines)
SplitFiles ==
    /\ ppc = "split"
    /\ file_blocks' = _split_files(doc_lines)
    /\ ppc' = "commands"
    /\ UNCHANGED <<document, doc_lines, file_ops, file_changes, analysis, oi,
                   project_path, engine_vars, save_vars, scan_vars, resolve_vars>>

\* if not file_blocks: the commands of all the lines, under the sentinel
ParseCurrentFile ==
    /\ ppc = "commands"
    /\ file_blocks = <<>>
    /\ \E cmds \in {_parse_commands(doc_lines)} :
          file_changes' = IF cmds # <<>>
                          THEN <<[fp |-> CURRENT_FILE, cmds |-> cmds]>>
                          ELSE <<>>
    /\ ppc' = "returned"
    /\ UNCHANGED <<document, doc_lines, file_ops, file_blocks, analysis, oi,
                   project_path, engine_vars, save_vars, scan_vars, resolve_vars>>

\* for fp, block_lines in file_blocks.items(): the commands of each block
ParseBlocks ==
    /\ ppc = "commands"
    /\ file_blocks # <<>>
    /\ file_changes' = BlockCommands(file_blocks)
    /\ ppc' = "returned"
    /\ UNCHANGED <<document, doc_lines, file_ops, file_blocks, analysis, oi,
                   project_path, engine_vars, save_vars, scan_vars, resolve_vars>>

NextParse ==
    \/ ParseNothing
    \/ ParseFileOps
    \/ SplitFiles
    \/ ParseCurrentFile
    \/ ParseBlocks

SpecParse == ParseInit /\ [][NextParse]_vars

\* the state machine computes what parse computes
ParseAgrees ==
    ppc = "returned" =>
        parse(document) = [file_changes |-> file_changes, file_ops |-> file_ops]

(***************************************************************************)
(* Properties of parse (SpecParse).                                        *)
(***************************************************************************)

Returned == ppc = "returned"

\* the documents of at most MaxSegments segments that hold the block of a.cs
\* once, the block of b.cs once, and otherwise segments of others
TwoBlockDocuments(others) ==
    {Join(Flat(segs)) :
        segs \in {q \in UNION {[1..n -> {FileBlockA, FileBlockB} \cup others] :
                                  n \in 2..MaxSegments} :
                     /\ Cardinality({k \in DOMAIN q : q[k] = FileBlockA}) = 1
                     /\ Cardinality({k \in DOMAIN q : q[k] = FileBlockB}) = 1}}

\* the commands between the header and the END FILE line of a closed block
OwnCommands(blk) == _parse_commands(SubSeq(blk, 2, Len(blk) - 1))

\* the mapping has two entries, a.cs and b.cs, each with its own commands
TwoOwnEntries ==
    /\ Len(file_changes) = 2
    /\ {file_changes[1], file_changes[2]} =
          {[fp |-> <<"a", ".", "c", "s">>, cmds |-> OwnCommands(FileBlockA)],
           [fp |-> <<"b", ".", "c", "s">>, cmds |-> OwnCommands(FileBlockB)]}

AnyFileOpBlocks == TwoBlockDocuments({CreateBlock, CreateWithHeader, OpenCreate, DeleteFileLine})
PlainFileOpBlocks == TwoBlockDocuments({CreateBlock, OpenCreate, DeleteFileLine})

UpperCaseLine(line) ==
    IF line = FILE_C_LOWER
    THEN <<"=", "=", "=", " ", "F", "I", "L", "E", ":", " ", "c", ".", "c", "s", " ",
           "=", "=", "=">>
    ELSE IF line = INSERT_2_LOWER
    THEN <<"@", "@", " ", "2", " ", "I", "N", "S", "E", "R", "T">>
    ELSE IF line = CMD_END_LOWER THEN CMD_END
    ELSE IF line = END_FILE_LOWER THEN END_FILE
    ELSE line

UpperCaseForm(s) ==
    LET ls == SplitLines(s) IN Join([k \in 1..Len(ls) |-> UpperCaseLine(ls[k])])

\* C22: the keywords are matched in any letter case: a document parses to
\* what the same document with its FILE:, END FILE, INSERT and END keywords
\* in upper case parses to.
C22_KeywordsInAnyCase ==
    Returned =>
        [file_changes |-> file_changes, file_ops |-> file_ops]
            = parse(UpperCaseForm(document))

IsCommandLine(line) ==
    \/ Matches(RE_CMD_REPLACE(line))
    \/ Matches(RE_CMD_DELETE(line))
    \/ Matches(RE_CMD_INSERT(line))

\* the line numbers of the command lines of ls, in increasing order
CommandLines(ls) ==
    LET at == {i \in 1..Len(ls) : IsCommandLine(ls[i])}
    IN  [k \in 1..Cardinality(at) |->
            CHOOSE i \in at : Cardinality({j \in at : j < i}) = k - 1]

\* the lines after the command line i up to the next @@ END, command line,
\* FILE line or END FILE line, or up to the end
BodyAfter(ls, i) ==
    LET stops == {j \in (i + 1)..Len(ls) :
                     \/ IsCmdEnd(ls[j])
                     \/ IsCommandLine(ls[j])
                     \/ Matches(RE_FILE_START(ls[j]))
                     \/ Matches(RE_FILE_END(ls[j]))}
        stop == IF stops = {} THEN Len(ls) + 1
                ELSE CHOOSE j \in stops : \A k \in stops : j <= k
    IN  Join(SubSeq(ls, i + 1, stop - 1))

\* the command that the command line i of ls stands for
CommandAt(ls, i) ==
    IF Matches(RE_CMD_REPLACE(ls[i]))
    THEN Replace(RE_CMD_REPLACE(ls[i]).start, RE_CMD_REPLACE(ls[i]).end, BodyAfter(ls, i))
    ELSE IF Matches(RE_CMD_DELETE(ls[i]))
    THEN Delete(RE_CMD_DELETE(ls[i]).start, RE_CMD_DELETE(ls[i]).count)
    ELSE Insert(RE_CMD_INSERT(ls[i]).after, BodyAfter(ls, i))

\* one command for each command line of ls, in order, each with its body
EveryCommandLine(ls) ==
    LET at == CommandLines(ls) IN [k \in 1..Len(at) |-> CommandAt(ls, at[k])]

\* the list of commands stored for fp, the empty list when fp has no entry
CommandsFor(fp) ==
    IF \E k \in 1..Len(file_changes) : file_changes[k].fp = fp
    THEN file_changes[CHOOSE k \in 1..Len(file_changes) : file_changes[k].fp = fp].cmds
    ELSE <<>>

\* a command line without @@ END after its body is followed by a command
\* line, a FILE line or an END FILE line, or by the end of the lines
Unterminated(ls, i) ==
    /\ Matches(RE_CMD_REPLACE(ls[i])) \/ Matches(RE_CMD_INSERT(ls[i]))
    /\ \A j \in (i + 1)..Len(ls) :
          IsCmdEnd(ls[j]) => \E k \in (i + 1)..(j - 1) : EndsBody(ls[k])

\* C24: every command line of the parsed lines yields a command, in order; a
\* REPLACE or INSERT body without @@ END holds the lines up to the next
\* command line, FILE line or END FILE line, that command line yields the
\* next command, and parse returns for every document.
C24_UnterminatedBodyPreempted ==
    /\ ppc \in {"call", "split", "commands", "returned"}
    /\ Returned /\ ~Blank(document) =>
          IF file_blocks = <<>>
          THEN CommandsFor(CURRENT_FILE) = EveryCommandLine(doc_lines)
          ELSE \A k \in 1..Len(file_blocks) :
                  CommandsFor(file_blocks[k].fp) = EveryCommandLine(file_blocks[k].lines)

C24_Witness ==
    /\ Returned
    /\ document = Join(Flat(<<OpenInsert, OpenInsert, EndFileLine>>))
    /\ Unterminated(doc_lines, 1)
    /\ Unterminated(doc_lines, 3)
    /\ CommandsFor(CURRENT_FILE) = <<Insert(1, <<"y">>), Insert(1, <<"y">>)>>

IsCreateHeader(line) == Matches(RE_CREATE_FILE(line))
IsDeleteHeader(line) == Matches(RE_DELETE_FILE(line))

\* the number of the next END FILE line after the line i, len + 1 if none
NextEndFile(ls, i) ==
    LET marks == {j \in (i + 1)..Len(ls) : Matches(RE_FILE_END(ls[j]))}
    IN  IF marks = {} THEN Len(ls) + 1
        ELSE CHOOSE j \in marks : \A k \in marks : j <= k

\* the line i is a CREATE FILE or DELETE FILE header that is not a content
\* line of a create operation
RECURSIVE IsOperation(_, _)
IsOperation(ls, i) ==
    /\ IsCreateHeader(ls[i]) \/ IsDeleteHeader(ls[i])
    /\ \A h \in 1..(i - 1) :
          IsCreateHeader(ls[h]) /\ IsOperation(ls, h) => NextEndFile(ls, h) < i

\* the operation of the header line i
OperationAt(ls, i) ==
    IF IsCreateHeader(ls[i])
    THEN [op |-> "create", path |-> HeaderFp(RE_CREATE_FILE(ls[i])),
          content |-> Join(SubSeq(ls, i + 1, NextEndFile(ls, i) - 1))]
    ELSE [op |-> "delete", path |-> HeaderFp(RE_DELETE_FILE(ls[i]))]

\* one operation for each operation header of ls, in document order
EveryOperation(ls) ==
    LET at == {i \in 1..Len(ls) : IsOperation(ls, i)}
        kth(k) == CHOOSE i \in at : Cardinality({j \in at : j < i}) = k - 1
    IN  [k \in 1..Cardinality(at) |-> OperationAt(ls, kth(k))]

\* C25: file_ops holds one operation for each CREATE FILE and DELETE FILE
\* header of the document that is not itself a content line of a create
\* operation, inside a FILE block or not, in document order; the content of
\* a create operation is the lines between its header and the next END FILE
\* line, or the end of the document.
C25_FileOpsInDocumentOrder ==
    Returned /\ ~Blank(document) => file_ops = EveryOperation(doc_lines)

\* a DELETE FILE line and a CREATE FILE block inside the block of a.cs
C25_Witness ==
    /\ Returned
    /\ document = Join(Flat(<<OpenBlockA, DeleteFileLine, CreateBlock>>))
    /\ Len(file_blocks) = 1
    /\ \E k \in 1..Len(file_blocks[1].lines) : IsCreateHeader(file_blocks[1].lines[k])
    /\ file_ops = <<[op |-> "delete", path |-> <<"a", ".", "c", "s">>],
                    [op |-> "create", path |-> <<"n", ".", "c", "s">>,
                     content |-> DELETE_9_9]>>

(***************************************************************************)
(* The state machine of the calls that take a document: analyze, and        *)
(* apply_and_save with resolve_and_apply_all.  Both start by parsing.      *)
(***************************************************************************)

\* the segments of the documents given to the engine
\* a closed CREATE FILE block with a one-letter content
CreateShort == <<CREATE_N, <<"z">>, END_FILE>>
PatchSegments == {FileBlockA, FileBlockB, CreateShort, DeleteFileLine, OpenInsert}

ProjectDir == <<"/", "p">>
NewAbs == <<"/", "p", "/", "n", ".", "c", "s">>

\* a file of the project folder that the path map does not know
StrayAbs == <<"/", "p", "/", "b", ".", "c", "s">>

\* the file to create is missing, exists, or exists together with a .bak
PatchDisks ==
    { (SrcAbs :> LfText) @@ OtherFiles,
      (NewAbs :> <<"o">>) @@ (StrayAbs :> <<"k">>) @@ (SrcAbs :> LfText) @@ OtherFiles,
      (NewAbs :> <<"o">>) @@ ((NewAbs \o BAK) :> <<"b">>) @@ OtherFiles }

PatchInit ==
    /\ EngineIdle
    /\ ResolveIdle
    /\ ScanIdle
    /\ \E n \in 0..MaxSegments : \E segs \in [1..n -> PatchSegments] :
           document = Join(Flat(segs))
    /\ doc_lines = <<>>
    /\ file_ops = <<>>
    /\ file_blocks = <<>>
    /\ file_changes = <<>>
    /\ ppc = "call"
    /\ analysis = None
    /\ oi = 0
    /\ project_path \in {None, ProjectDir}
    /\ parsed = <<>>
    /\ disk0 \in PatchDisks
    /\ disk = disk0
    /\ results = <<>>
    /\ summary = NoSummary
    /\ ri = 0
    /\ si = 0
    /\ spc = "idle"

\* if path_map and fp != '__current_file__'
NoSentinel(fp) == FALSE
IsSentinel(fp) == fp = CURRENT_FILE

\* the list files of analyze
AnalyzeFiles(fc) ==
    [k \in 1..Len(fc) |->
        LET rp == IF path_map # <<>> /\ ~IsSentinel(fc[k].fp)
                  THEN _resolve(fc[k].fp, path_map) ELSE None
        IN  [path |-> fc[k].fp, change_count |-> Len(fc[k].cmds),
             found_in_project |-> rp # None, resolved_path |-> rp]]

AnalyzeFormat(fc, ops) ==
    IF fc = <<>> /\ ops = <<>> THEN "unrecognized"
    ELSE IF ops # <<>> /\ fc = <<>> THEN "file_ops_only"
    ELSE IF \E k \in 1..Len(fc) : fc[k].fp = CURRENT_FILE THEN "single_file"
    ELSE IF Len(fc) = 1 THEN "single_file_named"
    ELSE "multi_file"

\* analyze, after its call of parse
Analyze ==
    /\ ppc = "returned"
    /\ spc = "idle"
    /\ analysis' = [file_count |-> Len(file_changes),
                    files |-> AnalyzeFiles(file_changes),
                    format |-> AnalyzeFormat(file_changes, file_ops),
                    file_ops |-> file_ops]
    /\ ppc' = "analyzed"
    /\ UNCHANGED <<document, doc_lines, file_ops, file_blocks, file_changes, oi,
                   project_path, engine_vars, save_vars, scan_vars, resolve_vars>>

\* resolve_and_apply_all, after its call of parse: results = []
ResolveAll ==
    /\ ppc = "returned"
    /\ spc = "idle"
    /\ parsed' = file_changes
    /\ spc' = "ops"
    /\ UNCHANGED <<parse_vars, engine_vars, scan_vars, resolve_vars, disk, disk0, results,
                   summary, ri, si>>

AtFileOp == spc = "ops" /\ oi < Len(file_ops)
fop == file_ops[oi + 1]

\* what the file system does to one file operation: everything works, the
\* copy fails, or the write (the removal) fails
FileOpOutcomes == {"ok", "copy fails", "write fails"}

FileOpResult(r) ==
    /\ results' = Append(results, r)
    /\ oi' = oi + 1
    /\ UNCHANGED <<document, doc_lines, file_ops, file_blocks, file_changes, ppc,
                   analysis, project_path, engine_vars, scan_vars, resolve_vars, parsed, disk0,
                   summary, ri, si, spc>>

Created(fp, full_path, content) ==
    [filepath |-> fp, resolved_path |-> full_path, success |-> TRUE,
     new_content |-> content, messages |-> <<[tag |-> "[CREATED]"]>>,
     line_ending |-> LF_STYLE]

\* the name that the backup of a file to overwrite gets
CreateBackupPath(full_path, dsk) == BackupPath(full_path, dsk)

\* if fop['op'] == 'create'
CreateFile ==
    /\ AtFileOp
    /\ fop.op = "create"
    /\ \E io \in FileOpOutcomes :
        LET fp == fop.path
            full_path == IF project_path # None THEN JoinPath(project_path, fp) ELSE fp
            exists == full_path \in DOMAIN disk
            bp == CreateBackupPath(full_path, disk)
            backed == IF exists THEN WithFile(disk, bp, disk[full_path]) ELSE disk
        IN
        \* os.makedirs('') raises: the path has no directory part
        IF LastIndexIn(full_path, {"/"}) = 0 THEN
            /\ disk' = disk
            /\ FileOpResult(Failure(fp, full_path, "[X] create error"))
        ELSE IF io = "copy fails" /\ exists THEN
            /\ disk' = disk
            /\ FileOpResult(Failure(fp, full_path, "[X] create error"))
        ELSE IF io = "write fails" THEN
            /\ \E cut \in 0..Max(Len(fop.content) - 1, 0) :
                  disk' = WithFile(backed, full_path, SubSeq(fop.content, 1, cut))
            /\ FileOpResult(Failure(fp, full_path, "[X] create error"))
        ELSE
            /\ disk' = WithFile(backed, full_path, fop.content)
            /\ FileOpResult(Created(fp, full_path, fop.content))

DELETED_BAK == <<".", "d", "e", "l", "e", "t", "e", "d", "_", "b", "a", "k">>

\* the disk dsk without the file at path
WithoutFile(dsk, path) == [q \in DOMAIN dsk \ {path} |-> dsk[q]]

\* elif fop['op'] == 'delete'; no known path is a directory
DeleteFile ==
    /\ AtFileOp
    /\ fop.op = "delete"
    /\ \E io \in FileOpOutcomes :
        LET fp == fop.path
            rp == ResolvedOnDisk(fp, disk)
            bp == rp \o DELETED_BAK
        IN
        IF rp = None \/ rp \notin DOMAIN disk THEN
            /\ disk' = disk
            /\ FileOpResult(Failure(fp, None, "[X] not found for delete"))
        ELSE IF io = "copy fails" THEN
            /\ disk' = disk
            /\ FileOpResult(Failure(fp, rp, "[X] delete error"))
        ELSE IF io = "write fails" THEN
            /\ disk' = WithFile(disk, bp, disk[rp])
            /\ FileOpResult(Failure(fp, rp, "[X] delete error"))
        ELSE
            /\ disk' = WithoutFile(WithFile(disk, bp, disk[rp]), rp)
            /\ FileOpResult([filepath |-> fp, resolved_path |-> rp, success |-> TRUE,
                             new_content |-> NoContent,
                             messages |-> <<[tag |-> "[DELETED]"], [tag |-> "[BACKUP]"]>>,
                             line_ending |-> LF_STYLE])

\* the loop over file_ops is over; the loop over parsed starts
OpsDone ==
    /\ spc = "ops"
    /\ oi = Len(file_ops)
    /\ spc' = "resolve"
    /\ UNCHANGED <<parse_vars, engine_vars, scan_vars, resolve_vars, parsed, disk, disk0,
                   results, summary, ri, si>>

\* the result of a file operation is counted as created or deleted, or as
\* failed; the file is a .cs file, so no py_compile run follows
CountFileOp ==
    /\ AtResult
    /\ IsFileOpResult(r_)
    /\ IF ~r_.success THEN Bump("failed")
       ELSE IF HasTag(r_, "[CREATED]") THEN Bump("created")
       ELSE Bump("deleted")
    /\ si' = si + 1
    /\ UNCHANGED <<scan_vars, resolve_vars, parse_vars, engine_vars, parsed, disk, disk0,
                   results, ri, spc>>

NextPatch ==
    \/ ParseNothing
    \/ ParseFileOps
    \/ SplitFiles
    \/ ParseCurrentFile
    \/ ParseBlocks
    \/ Analyze
    \/ ResolveAll
    \/ CreateFile
    \/ DeleteFile
    \/ OpsDone
    \/ FileNotSpecified
    \/ NotFound
    \/ ReadError
    \/ EditFile
    \/ StartSaving
    \/ NotSaved
    \/ SaveCandidate
    \/ CountFileOp
    \/ SaveReturn

SpecPatch == PatchInit /\ [][NextPatch]_vars

\* the state machine keeps its shape: one result per finished operation and
\* block, the counters add up to the results counted
PatchShape ==
    /\ Len(results) = oi + ri
    /\ spc \in {"idle", "ops", "resolve", "save", "done"}
    /\ summary.saved + summary.failed + summary.skipped + summary.created
          + summary.deleted = si

(***************************************************************************)
(* Properties of analyze and apply_and_save on a document (SpecPatch).     *)
(***************************************************************************)

ParseDone == ppc \in {"returned", "analyzed"}

\* the document has no FILE header and at least one command line
HeaderlessCommands ==
    /\ ParseDone
    /\ ~Blank(document)
    /\ \A k \in 1..Len(doc_lines) : ~Matches(RE_FILE_START(doc_lines[k]))
    /\ \E k \in 1..Len(doc_lines) : IsCommandLine(doc_lines[k])

\* the result that resolve_and_apply_all appends for the sentinel key
SentinelResult(r) ==
    /\ r.filepath = CURRENT_FILE
    /\ r.resolved_path = None
    /\ ~r.success
    /\ r.new_content = NoContent

SentinelKept ==
    /\ HeaderlessCommands =>
          file_changes = <<[fp |-> CURRENT_FILE, cmds |-> EveryCommandLine(doc_lines)]>>
    /\ ppc = "analyzed" =>
          \A k \in 1..Len(analysis.files) :
              analysis.files[k].path = CURRENT_FILE =>
                  /\ ~analysis.files[k].found_in_project
                  /\ analysis.files[k].resolved_path = None

SentinelStep ==
    AtBlock /\ block.fp = CURRENT_FILE =>
        /\ Len(results') = Len(results) + 1
        /\ SentinelResult(results'[Len(results')])
        /\ disk' = disk

\* C23: the commands of a document without FILE header are all attached to
\* the key "__current_file__"; analyze reports that key as not found and not
\* resolved, and resolve_and_apply_all appends for it a failed result without
\* resolved path and leaves the disk as it is, even when a known path has
\* that very name.
C23_SentinelNeverResolved == [](SentinelKept) /\ [][SentinelStep]_vars

C23_Witness ==
    /\ spc = "done"
    /\ HeaderlessCommands
    /\ _resolve(CURRENT_FILE, path_map) = SentinelAbs
    /\ SentinelResult(results[Len(results)])
    /\ summary.skipped >= 1
    /\ Len(file_ops) >= 1


(***************************************************************************)
(* Calls of LineDiffEngine._resolve on its own: a declared path and a map  *)
(* of known paths, whose items keep the order of the dict.  The keys of    *)
(* the map are relative paths of scanned files, so none is empty, and the  *)
(* file of a key is the key under the project folder.                      *)
(***************************************************************************)

K_AU == <<"a", "/", "u", ".", "c">>
K_BU == <<"b", "/", "u", ".", "c">>
K_BU_UPPER == <<"B", "/", "U", ".", "C">>
K_BU_BACKSLASH == <<BS, "b", BS, "u", ".", "c">>
K_U == <<"u", ".", "c">>
K_XU == <<"x", "u", ".", "c">>
K_XBU == <<"x", "/", "b", "/", "u", ".", "c">>
K_YU == <<"y", "/", "u", ".", "c">>
K_ABXU == <<"a", "/", "b", "/", "x", "/", "u", ".", "c">>

KnownPaths == {K_AU, K_BU, K_BU_UPPER, K_BU_BACKSLASH, K_U, K_XU, K_XBU, K_YU, K_ABXU}

D_BU == K_BU
D_BU_SLASHES == <<"/", "b", "/", "u", ".", "c", "/">>
D_BU_MIXED == <<"B", "/", "u", ".", "c">>
D_U == K_U
D_ABYU == <<"a", "/", "b", "/", "y", "/", "u", ".", "c">>
D_ZV == <<"z", "/", "v", ".", "c">>

ResolveInputs == {<<>>, D_BU, D_BU_SLASHES, D_BU_MIXED, D_U, D_ABYU, D_ZV}

\* the most items of a map of known paths
MaxKnown == 3

\* the absolute path the scan records for a relative path
FileOf(key) == <<"/", "p", "/">> \o key

\* the maps of n distinct known paths, in every order
KnownMaps(n) ==
    {[k \in 1..n |-> <<keys[k], FileOf(keys[k])>>] :
        keys \in {q \in [1..n -> KnownPaths] :
                     \A i, j \in 1..n : i # j => q[i] # q[j]}}

ResolveInit ==
    /\ text = <<>>
    /\ EngineIdle
    /\ SaveIdle
    /\ ScanIdle
    /\ ParseIdle
    /\ declared \in ResolveInputs
    /\ \E n \in 0..MaxKnown : known \in KnownMaps(n)
    /\ found = None
    /\ rpc = "call"

\* the call returns
Resolve ==
    /\ rpc = "call"
    /\ found' = _resolve(declared, known)
    /\ rpc' = "returned"
    /\ UNCHANGED <<declared, known, text, balance, engine_vars, save_vars,
                   scan_vars, parse_vars>>

NextResolve == Resolve

SpecResolve == ResolveInit /\ [][NextResolve]_vars

\* the path with its separators normalised and its outer slashes trimmed
Normal(path) == StripSlashes(Slashed(path))

\* the items of the map whose path is the declared one after normalising
EqualAfterNormalising == {k \in 1..Len(known) : Normal(known[k][1]) = Normal(declared)}

\* the items that match the declared path by a later rule only
LaterMatches ==
    {k \in 1..Len(known) :
        /\ Normal(known[k][1]) # Normal(declared)
        /\ \/ Lower(Normal(known[k][1])) = Lower(Normal(declared))
           \/ Lower(Last(SplitSlash(Slashed(known[k][1]))))
                  = Last(SplitSlash(Lower(Normal(declared))))
           \/ EndsWith(Lower(Slashed(known[k][1])), Lower(Normal(declared)))}

\* C26: when a known path equals the declared path after normalising the
\* separators and trimming the outer slashes, the call returns the file of
\* the first such path, whatever other known paths match it without case,
\* by file name or by suffix.
C26_ExactMatchWins ==
    rpc = "returned" =>
        \A k \in EqualAfterNormalising :
            (\A j \in EqualAfterNormalising : k <= j) => found = known[k][2]

\* an exact match that is returned although an earlier item of the map
\* matches by a later rule
C26_Witness ==
    /\ rpc = "returned"
    /\ \E k \in EqualAfterNormalising :
          /\ found = known[k][2]
          /\ \E j \in LaterMatches : j < k

\* the segments of a path as rule 4 compares them
Segments4(path) == SplitSlash(Lower(Slashed(path)))

\* the length of the longest run of trailing segments two paths share
RECURSIVE TrailingRun(_, _)
TrailingRun(rp, np) ==
    IF Len(rp) = 0 \/ Len(np) = 0 \/ Last(rp) # Last(np) THEN 0
    ELSE 1 + TrailingRun(SubSeq(rp, 1, Len(rp) - 1), SubSeq(np, 1, Len(np) - 1))

\* the items of the map that share the file name of the declared path
SameFileName ==
    {k \in 1..Len(known) :
        Lower(Last(SplitSlash(Slashed(known[k][1]))))
            = Last(SplitSlash(Lower(Normal(declared))))}

\* rule 4 decides: no known path equals the declared one, with or without
\* case, and several share its file name
ReachesRule4 ==
    /\ rpc = "returned"
    /\ declared # <<>>
    /\ \A k \in 1..Len(known) :
          Lower(Normal(known[k][1])) # Lower(Normal(declared))
    /\ Cardinality(SameFileName) > 1

\* C27: when several known paths share the file name of the declared path,
\* the call returns a candidate with the longest run of trailing segments
\* equal to the trailing segments of the declared path.
C27_DeepestSuffixWins ==
    ReachesRule4 =>
        \E k \in SameFileName :
            /\ found = known[k][2]
            /\ \A j \in SameFileName :
                  TrailingRun(Segments4(known[j][1]), Segments4(Normal(declared)))
                      <= TrailingRun(Segments4(known[k][1]),
                                     Segments4(Normal(declared)))


(***************************************************************************)
(* A declared path that nothing matches (SpecPatch).                       *)
(***************************************************************************)

\* the loop is at a file block whose declared path matches no known path
\* and names no file under the project folder
Unresolvable ==
    /\ AtBlock
    /\ block.fp # CURRENT_FILE
    /\ _resolve(block.fp, path_map) = None
    /\ \/ project_path = None
       \/ JoinPath(project_path, block.fp) \notin DOMAIN disk

\* the result recorded for a declared path that was not found
NotFoundResult(r) ==
    /\ ~r.success
    /\ r.resolved_path = None
    /\ r.new_content = NoContent
    /\ HasTag(r, "[X] not found")

\* the step from a block that cannot be resolved: one failed result for
\* that block, no file touched, and the loop goes on with the next block
UnresolvableStep ==
    Unresolvable =>
        /\ Len(results') = Len(results) + 1
        /\ SubSeq(results', 1, Len(results)) = results
        /\ NotFoundResult(results'[Len(results')])
        /\ results'[Len(results')].filepath = block.fp
        /\ disk' = disk
        /\ ri' = ri + 1
        /\ spc' = "resolve"

\* once the blocks are passed, every file operation and every file block
\* has its result, in order
AllProcessed ==
    spc \in {"save", "done"} =>
        /\ Len(results) = Len(file_ops) + Len(parsed)
        /\ parsed = file_changes
        /\ \A k \in 1..Len(file_ops) : results[k].filepath = file_ops[k].path
        /\ \A k \in 1..Len(parsed) :
              results[Len(file_ops) + k].filepath = parsed[k].fp

\* a call in progress stands at an operation, a block or a result that
\* exists, or at the end of its loop
PatchNeverStuck ==
    /\ spc = "ops" =>
          /\ oi <= Len(file_ops)
          /\ \A k \in 1..Len(file_ops) : file_ops[k].op \in {"create", "delete"}
    /\ spc = "resolve" => oi = Len(file_ops) /\ ri <= Len(parsed)
    /\ spc = "save" => si <= Len(results)

\* every step of a call passes one operation, block or result, or goes
\* from one loop to the next
PatchAdvances ==
    spc \in {"ops", "resolve", "save"} =>
        \/ spc' = spc /\ oi' + ri' + si' = oi + ri + si + 1
        \/ <<spc, spc'>> \in {<<"ops", "resolve">>, <<"resolve", "save">>,
                              <<"save", "done">>}

\* C28: a declared path that matches no known path and no file under the
\* project folder gets a failed result without resolved path and without
\* new content; the call goes on with the next block, every file operation
\* and every file block of the document gets its result, and every
\* step of the call passes one of them or ends a loop, so the call returns.
C28_NotFoundIsPerFile ==
    [](AllProcessed /\ PatchNeverStuck) /\ [][UnresolvableStep /\ PatchAdvances]_vars

\* a call that returned after a block that was not found, a file operation
\* before it and a saved file block after it
C28_Witness ==
    /\ spc = "done"
    /\ Len(file_ops) >= 1
    /\ \E i, j \in 1..Len(results) :
          /\ Len(file_ops) < i
          /\ i < j
          /\ NotFoundResult(results[i])
          /\ results[j].success
    /\ summary.saved >= 1


(***************************************************************************)
(* CREATE FILE on a target that exists (SpecPatch).                        *)
(***************************************************************************)

\* the path a create operation writes to
CreateTarget ==
    IF project_path # None THEN JoinPath(project_path, fop.path) ELSE fop.path

\* the loop is at a create operation whose target is a file
CreateOverExisting ==
    /\ AtFileOp
    /\ fop.op = "create"
    /\ CreateTarget \in DOMAIN disk

\* the backup names of a file, in the order they are tried
BackupName(path, n) == IF n = 0 THEN path \o BAK ELSE path \o BAK \o Str(n)

\* bp is the first backup name of path that names nothing on the disk dsk
FirstFree(bp, path, dsk) ==
    \E n \in 0..Len(DigitChars) :
        /\ bp = BackupName(path, n)
        /\ bp \notin DOMAIN dsk
        /\ \A m \in 0..(n - 1) : BackupName(path, m) \in DOMAIN dsk

\* a create step that changes the disk under an existing target first put
\* the old content under the first free backup name; every other file,
\* earlier backups included, is as before
BackupBeforeOverwrite ==
    (CreateOverExisting /\ disk' # disk) =>
        /\ \E bp \in DOMAIN disk' \ DOMAIN disk :
              /\ FirstFree(bp, CreateTarget, disk)
              /\ disk'[bp] = disk[CreateTarget]
              /\ DOMAIN disk' = DOMAIN disk \cup {bp}
        /\ \A q \in DOMAIN disk \ {CreateTarget} : disk'[q] = disk[q]

\* a create step that makes no backup of an existing target leaves the
\* target as it was
NoBackupNoWrite ==
    (CreateOverExisting /\ DOMAIN disk' = DOMAIN disk) => disk' = disk

\* C29: a CREATE FILE operation on a target that exists writes the new
\* content only after the old content was copied to a backup name that did
\* not exist before, the first free of .bak, .bak1, .bak2, ...; the old
\* content and every earlier backup stay on the disk.
C29_CreateBacksUpExisting == [][BackupBeforeOverwrite /\ NoBackupNoWrite]_vars

\* the target and its .bak existed: the old content is in .bak1, the earlier
\* backup is kept, and the target holds the new content
C29_Witness ==
    /\ spc = "done"
    /\ disk0 = (NewAbs :> <<"o">>) @@ ((NewAbs \o BAK) :> <<"b">>) @@ OtherFiles
    /\ NewAbs \o BAK \o Str(1) \in DOMAIN disk
    /\ disk[NewAbs \o BAK \o Str(1)] = <<"o">>
    /\ disk[NewAbs \o BAK] = <<"b">>
    /\ disk[NewAbs] = <<"z">>
    /\ \E k \in 1..Len(results) : HasTag(results[k], "[CREATED]")


(***************************************************************************)
(* The save of one edited file (SpecSave).                                 *)
(***************************************************************************)

\* the save loop is at the result of an edit that has new content
AtCandidate ==
    /\ AtResult
    /\ ~IsFileOpResult(r_)
    /\ r_.success
    /\ r_.new_content # NoContent

\* the step made a backup: one new file, under the first backup name that
\* named nothing before, holding what the edited file held before the step
BackupMade ==
    \E bp \in DOMAIN disk' \ DOMAIN disk :
        /\ FirstFree(bp, r_.resolved_path, disk)
        /\ disk'[bp] = disk[r_.resolved_path]
        /\ DOMAIN disk' = DOMAIN disk \cup {bp}

\* the step wrote to the edited file
Written ==
    \/ disk'[r_.resolved_path] # disk[r_.resolved_path]
    \/ HasTag(results'[si + 1], "[SAVED]")

\* the result is marked unsuccessful and counted as failed, not as saved
CountedFailed ==
    /\ ~results'[si + 1].success
    /\ summary'.failed = summary.failed + 1
    /\ summary'.saved = summary.saved

\* the step of one save candidate
SaveCandidateEffect ==
    AtCandidate =>
        /\ r_.resolved_path \in DOMAIN disk
        /\ Written => /\ BackupMade
                      /\ ~PreSaveCheckFails(r_.resolved_path, r_.new_content)
        /\ (~BackupMade \/ PreSaveCheckFails(r_.resolved_path, r_.new_content)) =>
              /\ disk'[r_.resolved_path] = disk[r_.resolved_path]
              /\ CountedFailed
        /\ \A q \in DOMAIN disk \ {r_.resolved_path} : disk'[q] = disk[q]

\* C30: in the save pass an edited file is written only when, in the same
\* step, its content of before the write was copied to a backup name that
\* did not exist before and, for a brace-language extension, the new content
\* passes the balance check; when the backup fails or the check fails the
\* file keeps its content, the result is marked unsuccessful and the failed
\* counter goes up by one.
C30_SaveAfterBackupAndCheck == [][SaveCandidateEffect]_vars

\* a file saved in a run that returned: the content of before the run is in
\* its .bak; another candidate was refused because its backup failed
C30_Witness ==
    /\ spc = "done"
    /\ summary.saved >= 1
    /\ \E rp \in DOMAIN disk0 :
          /\ rp \o BAK \in DOMAIN disk
          /\ disk[rp \o BAK] = disk0[rp]
          /\ disk[rp] # disk0[rp]
    /\ \E k \in 1..Len(results) :
          /\ HasTag(results[k], "[X]")
          /\ results[k].new_content # NoContent
          /\ results[k].resolved_path \o BAK \notin DOMAIN disk

(***************************************************************************)
(* Several declared paths that resolve to one file (SpecSave).             *)
(***************************************************************************)

\* the results of the run that were written to the file at rp
SavedTo(rp) ==
    {k \in 1..Len(results) :
        results[k].resolved_path = rp /\ HasTag(results[k], "[SAVED]")}

\* C31: in one apply_and_save run each real file is written by at most one
\* edit pass, also when several declared paths resolve to it, so no write
\* of one edit pass overwrites the saved result of another.
C31_OneEditPassPerFile ==
    spc = "done" => \A rp \in DOMAIN disk0 : Cardinality(SavedTo(rp)) <= 1

(***************************************************************************)
(* The log that apply_to_content returns (Spec).                           *)
(***************************************************************************)

ReturnedBatch == pc = "returned" /\ Len(commands) > 0

\* the line is the summary line of this call
IsSummaryLine(line) ==
    /\ line.tag = "Result"
    /\ line.ok = ok
    /\ line.errors = errors
    /\ line.total = Len(commands)

\* the line names the command c: its operation and its anchor
About(line, c) ==
    /\ "op" \in DOMAIN line
    /\ \/ c.type = "replace" /\ line.op = "REPLACE"
          /\ line.start = c.start /\ line.end = c.end
       \/ c.type = "delete" /\ line.op = "DELETE" /\ line.start = c.start
       \/ c.type = "insert" /\ line.op = "INSERT" /\ line.after = c.after

\* the anchor a line names
LineAnchor(line) == IF "start" \in DOMAIN line THEN line.start ELSE line.after

\* the [BLOCK] line of a Replace that the balance check rolled back
IsRollbackBlock(line) ==
    /\ line.tag = "[BLOCK]"
    /\ "why" \in DOMAIN line
    /\ line.why = "brace imbalance"

\* the positions of the log at which the lines of a command start
EntryHeads(log) ==
    {p \in 2..Len(log) : "op" \in DOMAIN log[p] /\ log[p].tag # "[ROLLBACK]"}

\* C32 as stated: the log of a non-empty batch is the summary line followed
\* by exactly one line per command, in the order the commands were applied;
\* the lines after those name no command.
C32_OneLinePerCommand ==
    ReturnedBatch =>
        /\ IsSummaryLine(result.msgs[1])
        /\ Len(result.msgs) >= 1 + Len(commands)
        /\ \A k \in 1..Len(commands) :
              About(result.msgs[1 + k], sorted_cmds(commands)[k])
        /\ \A p \in (2 + Len(commands))..Len(result.msgs) :
              "op" \notin DOMAIN result.msgs[p]

\* C32, amended: the log of a non-empty batch starts with the summary line;
\* then come the entries of the commands, one per command and in descending
\* order of anchor, where an entry is one line tagged [OK], [X] or [BLOCK],
\* or the two lines [BLOCK], [ROLLBACK] of a Replace that was rolled back;
\* the lines after the entries, at most two, are those of the size guard
\* and of the final balance check.
C32_OneEntryPerCommand ==
    ReturnedBatch =>
        LET log == result.msgs
            heads == EntryHeads(log)
        IN  /\ IsSummaryLine(log[1])
            /\ Cardinality(heads) = Len(commands)
            /\ \A p \in heads : log[p].tag \in {"[OK]", "[X]", "[BLOCK]"}
            /\ \A p \in 2..Len(log) :
                  /\ log[p].tag = "[ROLLBACK]" =>
                        /\ p - 1 \in heads
                        /\ IsRollbackBlock(log[p - 1])
                        /\ log[p].start = log[p - 1].start
                        /\ log[p].end = log[p - 1].end
                  /\ IsRollbackBlock(log[p]) =>
                        p < Len(log) /\ log[p + 1].tag = "[ROLLBACK]"
                  /\ "op" \notin DOMAIN log[p] =>
                        /\ log[p].tag \in {"[BLOCK]", "[BRACE OK]"}
                        /\ p + 2 > Len(log)
                        /\ \A q \in heads : q < p
            /\ \A p, q \in heads : p < q => LineAnchor(log[p]) >= LineAnchor(log[q])
            /\ \E f \in [heads -> 1..Len(commands)] :
                  /\ \A p, q \in heads : p # q => f[p] # f[q]
                  /\ \A p \in heads : About(log[p], commands[f[p]])

\* a batch given in ascending order whose log has a rolled-back Replace, an
\* applied command after it and the line of the final check at its end
C32_Witness ==
    /\ ReturnedBatch
    /\ Len(commands) >= 2
    /\ AnchorKey(commands[1]) < AnchorKey(commands[2])
    /\ Len(result.msgs) > 2 + Len(commands)
    /\ \E p \in 2..Len(result.msgs) : result.msgs[p].tag = "[ROLLBACK]"
    /\ \E p \in 2..Len(result.msgs) : result.msgs[p].tag = "[OK]"
    /\ result.msgs[Len(result.msgs)].tag = "[BRACE OK]"

(***************************************************************************)
(* Holes of template literals (SpecScan).                                  *)
(***************************************************************************)

\* the pass over a character of a ${ } hole: a brace is emitted and moves
\* the depth of the hole, a parenthesis is emitted as in a hole of an
\* interpolated string, and a back-quote does not end the literal
TemplateHoleEffect ==
    /\ Reads("hole", "{") => sc'.res = Append(sc.res, "{")
    /\ Reads("hole", "}") => sc'.res = Append(sc.res, "}")
    /\ Reads("hole", "(") => sc'.res = Append(sc.res, "(")
    /\ Reads("hole", BQ) => sc'.mode \in {"hole", "returned"} \/ sc'.i >= Len(text)

\* C33: a ${ } hole of a template literal is scanned like a hole of an
\* interpolated string: its braces and the brackets of the code inside it
\* are emitted, and a back-quote inside the hole does not end the literal.
C33_TemplateHoleIsLiveCode == [][TemplateHoleEffect]_vars


(***************************************************************************)
(* Ties of rule 4 and the file name of the match (SpecResolve).            *)
(***************************************************************************)

\* the score rule 4 gives the k-th item of the map
Score4(k) == Overlap(Segments4(known[k][1]), Segments4(Normal(declared)))

\* the items of the map that rule 5 accepts
SuffixMatches ==
    {k \in 1..Len(known) :
        \/ EndsWith(Lower(Slashed(known[k][1])), Lower(Normal(declared)))
        \/ EndsWith(Lower(Normal(declared)), Lower(Slashed(known[k][1])))}

\* C34: when rule 4 decides and returns a file, that file belongs to a
\* candidate whose score is strictly higher than the score of every other
\* candidate; on a tie of the highest score rule 4 returns none of the tied
\* candidates (a file may then only come from rule 5).
C34_TieHasNoWinner ==
    (ReachesRule4 /\ found # None /\ SuffixMatches = {}) =>
        \E k \in SameFileName :
            /\ found = known[k][2]
            /\ \A j \in SameFileName \ {k} : Score4(j) < Score4(k)


\* C36: a file the call returns belongs to a known path whose last segment
\* is, case aside, the last segment of the declared path.
C36_MatchKeepsFileName ==
    (rpc = "returned" /\ found # None) =>
        \E k \in SameFileName : found = known[k][2]


(***************************************************************************)
(* The content of CREATE FILE blocks (SpecParse).                          *)
(***************************************************************************)

\* the documents made of closed CREATE FILE blocks only
CreateOnlyDocuments ==
    {Join(Flat(segs)) :
        segs \in UNION {[1..n -> {CreateBlock, CreateWithHeader}] : n \in 1..MaxSegments}}

\* C35: the content lines of CREATE FILE blocks yield no edit command and no
\* entry of the mapping: a document of closed CREATE FILE blocks only parses
\* into an empty mapping, whatever the content lines look like.
C35_CreateContentIsOpaque ==
    Returned /\ document \in CreateOnlyDocuments => file_changes = <<>>


(***************************************************************************)
(* The per-command balance check on a buffer that is unbalanced (Spec).    *)
(***************************************************************************)

\* the buffer a Replace leaves when its splice is kept (a Replace that
\* starts past the end of the buffer splices nothing)
SplicedBy(ls, c) ==
    IF Max(c.start - 1, 0) > Len(ls) THEN ls
    ELSE SliceAssign(ls, Max(c.start - 1, 0), Min(c.end, Len(ls)), Split(c.content))

\* a Replace whose splice leaves the brackets of the buffer as they are
NeutralOn(ls, c) ==
    /\ c.type = "replace"
    /\ Brackets(Join(SplicedBy(ls, c))) = Brackets(Join(ls))

Unbalanced(ls) == ~check_brace_balance(Join(ls)).ok

\* a gated Replace step on an unbalanced buffer whose splice changes no
\* bracket is never applied: the buffer stays and an error is counted, and
\* unless the range test or the truncation guard rejects the command the
\* step logs [BLOCK] and [ROLLBACK]
NeutralReplaceStep ==
    (AtCmd("replace") /\ gate_on /\ Unbalanced(file_lines)
        /\ NeutralOn(file_lines, NextCmd))
    => /\ file_lines' = file_lines
       /\ CountedError
       /\ \/ LoggedOne("[X]")
          \/ LoggedOne("[BLOCK]") /\ Why(Last(msgs')) = "full replace"
          \/ /\ Len(msgs') = Len(msgs) + 2
             /\ Why(msgs'[Len(msgs) + 1]) = "brace imbalance"
             /\ Last(msgs').tag = "[ROLLBACK]"

\* a Delete or an Insert step is not checked: a Delete in range and every
\* Insert is applied and counted as ok, also when the gate is on and the
\* buffer it leaves is unbalanced
UncheckedStep ==
    /\ AtCmd("insert") => (CountedOk /\ LoggedOne("[OK]"))
    /\ (AtCmd("delete") /\ Max(NextCmd.start - 1, 0) < Len(file_lines))
          => (CountedOk /\ LoggedOne("[OK]") /\ Len(file_lines') < Len(file_lines))

\* a gated batch of Replace commands that change no bracket of an unbalanced
\* original applies none of them and returns the original
NeutralBatchKeepsOriginal ==
    (/\ pc = "returned"
     /\ gate_on
     /\ Len(commands) > 0
     /\ Unbalanced(Split(original))
     /\ \A k \in 1..Len(commands) : NeutralOn(Split(original), commands[k]))
    => /\ result.text = original
       /\ ok = 0
       /\ errors = Len(commands)

\* C37: the balance check of a Replace judges the whole buffer and only a
\* Replace is checked: with the gate on, a Replace that changes no bracket
\* of an unbalanced buffer is rolled back, a Delete or an Insert is applied
\* whatever it does to the balance, and a batch of such Replace commands on
\* an unbalanced original returns the original.
C37_WholeBufferJudgedOnReplaceOnly ==
    [][NeutralReplaceStep /\ UncheckedStep]_vars /\ [](NeutralBatchKeepsOriginal)

\* an Insert that unbalanced the buffer of a gated call was applied, and a
\* later Replace of a line without brackets by another was rolled back
C37_Witness ==
    /\ pc = "returned"
    /\ gate_on
    /\ ~Unbalanced(Split(original))
    /\ Unbalanced(file_lines)
    /\ Len(msgs) >= 4
    /\ msgs[2].tag = "[OK]" /\ Op(msgs[2]) = "INSERT"
    /\ Why(msgs[3]) = "brace imbalance"
    /\ msgs[4].tag = "[ROLLBACK]"
    /\ \E k \in 1..Len(commands) : NeutralOn(file_lines, commands[k])
    /\ result.text = original


(***************************************************************************)
(* The counters of a batch (Spec).                                         *)
(***************************************************************************)

\* a pass of the loop counts its command once, as ok or as an error, and
\* the code after the loop counts nothing
CountedOnce ==
    /\ (pc = "loop" /\ idx < Len(commands)) =>
          ((CountedOk \/ CountedError) /\ idx' = idx + 1)
    /\ (pc = "loop" /\ idx = Len(commands)) => (ok' = ok /\ errors' = errors)

\* the entries of a log with the given tag that name a command
Tagged(log, tag) == {k \in 1..Len(log) : log[k].tag = tag /\ Op(log[k]) # ""}

\* the summary line of a returned batch holds the counters, which add up to
\* the number of commands and agree with the entries of the log
SummaryAddsUp ==
    ReturnedBatch =>
        /\ IsSummaryLine(result.msgs[1])
        /\ result.msgs[1].ok = ok
        /\ result.msgs[1].errors = errors
        /\ result.msgs[1].total = Len(commands)
        /\ result.msgs[1].ok + result.msgs[1].errors = result.msgs[1].total
        /\ Cardinality(Tagged(result.msgs, "[OK]")) = ok
        /\ Cardinality(Tagged(result.msgs, "[X]"))
              + Cardinality(Tagged(result.msgs, "[BLOCK]")) = errors

\* C39: every command of a batch increments exactly one of the counters ok
\* and errors, and the summary line of a returned batch has
\* ok + errors = total, also after a rollback, after a command that a
\* guard or a range test rejects, and when the size guard or the final
\* balance check discards the batch.
C39_EveryCommandCountedOnce == [][CountedOnce]_vars /\ [](SummaryAddsUp)

\* a batch of a rolled-back Replace and a Delete out of range that the final
\* check discards
C39_Witness ==
    /\ ReturnedBatch
    /\ LoggedWhy(result.msgs, "brace imbalance")
    /\ \E k \in Tagged(result.msgs, "[X]") : Op(result.msgs[k]) = "DELETE"
    /\ LoggedWhy(result.msgs, "FINAL brace check")
    /\ errors = 2
    /\ result.text = original


(***************************************************************************)
(* The counters of apply_and_save on a project with a Python file          *)
(* (SpecSavePy): the save pass runs the syntax check after the write.      *)
(***************************************************************************)

PyText == <<"a", NL, "b", NL, "c">>

PyDeclared == {PyRel, SrcRel, <<"z", ".", "c", "s">>}

PyDocuments ==
    {d \in SeqsUpTo([fp : PyDeclared, cmds : BlockCmds], MaxBlocks) :
        \A i, j \in 1..Len(d) : i # j => d[i].fp # d[j].fp}
    \cup {<<[fp |-> CURRENT_FILE, cmds |-> c]>> : c \in BlockCmds}

\* the file s/a.cs is there or is missing
PyDisks == {(PyAbs :> PyText) @@ (SrcAbs :> LfText), (PyAbs :> PyText)}

SavePyInit ==
    /\ EngineIdle
    /\ ScanIdle
    /\ ParseIdle
    /\ ResolveIdle
    /\ parsed \in PyDocuments
    /\ disk0 \in PyDisks
    /\ disk = disk0
    /\ results = <<>>
    /\ summary = NoSummary
    /\ ri = 0
    /\ si = 0
    /\ spc = "resolve"

SpecSavePy == SavePyInit /\ [][NextSave]_vars

\* C38: when apply_and_save returns, every result has been counted in
\* exactly one of saved, failed, skipped, created and deleted: the five
\* counters add up to the number of results, whatever the file operations
\* of the save pass did.
C38_EveryResultCountedOnce ==
    spc = "done" =>
        summary.saved + summary.failed + summary.skipped + summary.created
            + summary.deleted = Len(results)


(***************************************************************************)
(* The pre-save balance check (SpecSave).                                  *)
(***************************************************************************)

\* the results that carry new content for the save pass
Candidates == {k \in 1..Len(results) : results[k].new_content # NoContent}

\* the result was refused by the pre-save check
RefusedAtSave(r) ==
    \E k \in 1..Len(r.messages) :
        Why(r.messages[k]) \in {"pre-save brace check FAILED", "file NOT saved"}

\* C40: the pre-save balance check never fails on a result of
\* resolve_and_apply_all: the new content of every result passes the check
\* of its file, the counter brace_blocked stays 0, and no result is refused
\* by the check after its backup has been made.
C40_PreSaveCheckNeverFails ==
    /\ summary.brace_blocked = 0
    /\ \A k \in Candidates :
          ~PreSaveCheckFails(results[k].resolved_path, results[k].new_content)
    /\ \A k \in 1..Len(results) : ~RefusedAtSave(results[k])

\* a returned call with an edit of a .cs file that the final check of
\* apply_to_content discarded, so that it never became a candidate, and an
\* edit of a .cs file that was saved
C40_Witness ==
    /\ spc = "done"
    /\ \E k \in 1..Len(results) :
          /\ results[k].resolved_path = SrcAbs
          /\ LoggedWhy(results[k].messages, "FINAL brace check")
          /\ k \notin Candidates
    /\ \E k \in Candidates :
          /\ results[k].resolved_path = LibAbs
          /\ HasTag(results[k], "[SAVED]")
    /\ summary.failed = 1
    /\ summary.saved = 1

=============================================================================
